---- MODULE Spec2Model ----
(***************************************************************************)
(* A model of the Thread commissioner control bridge of ot-commissioner:   *)
(*   - the OTCommissioner session of tools/commissioner_thci/              *)
(*     commissioner_impl.py, which drives a shell over a serial line       *)
(*     (write a command line, wait for its echo, collect lines up to the   *)
(*     idle prompt, check the [done] marker);                              *)
(*   - the daemon of tools/commissioner_thci/commissionerd.py, which       *)
(*     drives the commissioner CLI process through pexpect.                *)
(*                                                                         *)
(* Data on the line is a sequence of pieces.  A piece is a record          *)
(* [t |-> text, k |-> n]: a run of characters and the number of the        *)
(* _command call whose write made the shell emit it (k is bookkeeping of   *)
(* the model, the code never sees it).  A line terminator is a piece of    *)
(* its own.  A line is the sequence of the pieces between two terminators; *)
(* its text is their concatenation.                                        *)
(***************************************************************************)
EXTENDS Integers, Sequences, FiniteSets, TLC

VARIABLES
    pc,          \* position of the session's control flow
    lines,       \* OTCommissioner._lines
    pipe,        \* data that has arrived at the handler and is not read yet
    wire,        \* data the shell has emitted that has not arrived yet
    cmd,         \* the argument of the current (or last) _command call
    timeout,     \* the local `timeout` of _command / _expect
    response,    \* the local `response` of _command
    echo,        \* the line _expect accepted as the echo
    result,      \* how the last dispatch ended
    calls,       \* number of _command calls made so far
    lastSent,    \* the last line written to the handler
    io,          \* the transport operations of the session's last step
    dropped,     \* what the last _write_line threw away
    session,     \* "open", "closing" (inside __exit__), "closed"
    calledClosed,\* a dispatch has been made after __exit__
    stage,       \* __init__: "new", "config", "init", "probe", "ready", "failed"
    initResponse,\* the local `response` of __init__
    flow,        \* dispatches the body of the `with` statement has made
    broken,      \* a write to the handler raises
    logouts,     \* number of _write_line('logout') calls
    \* the daemon (commissionerd.py) and the CLI process it drives
    dpc,         \* position of the daemon's control flow
    process,     \* Application._process is set
    cli,         \* the CLI process: "none", "alive", "dead"
    cliQueue,    \* lines sent to the CLI process that it has not finished
    cliOuts,     \* output lines the CLI process has printed for its current line
    buf,         \* output of the CLI process that no expect has consumed
    msg,         \* the request being handled
    cont,        \* what follows _exit: "reply" or "spawn" (_exit called by _init)
    reqno,       \* number of requests received
    reply,       \* the last reply sent
    answered,    \* number of replies sent
    sigints,     \* SIGINTs sent while handling the current request
    timedOut,    \* the first expect of the current request timed out
    everTimedOut,\* some request has timed out
    \* the dataset codec of commissioner_impl.py
    ds,          \* the dataset object the caller holds
    given,       \* the dataset as the caller built it
    enc,         \* the outcome of the last encoding
    dec,         \* the outcome of the last decoding
    tlv,         \* the outcome of the last lookup in the TLV tables
    cops,        \* number of codec operations made
    \* the dispatcher methods of commissioner_impl.py
    call,        \* the method call in progress: its arguments, what it has
                 \* sent and slept so far, what came back, how it ended
    \* the framing of lines by _read_line
    framing      \* the stream the line carries between two writes, and the
                 \* lines successive _read_line calls have returned from it
                 \* (bookkeeping of the model)

lvars == <<stage, initResponse, flow, broken, logouts>>
svars == <<pc, lines, pipe, wire, cmd, timeout, response, echo, result, calls,
           lastSent, io, dropped, session, calledClosed, lvars>>
dvars == <<dpc, process, cli, cliQueue, cliOuts, buf, msg, cont, reqno, reply,
           answered, sigints, timedOut, everTimedOut>>
cvars == <<ds, given, enc, dec, tlv, cops>>
vars == <<svars, dvars, cvars, call, framing>>

-----------------------------------------------------------------------------
(* Program constants *)

COMMISSIONER_PROMPT == "pi@raspberry"
COMMISSIONER_CTL == "sudo commissioner_ctl.py"
TTY_COLS == 4096
DefaultTimeout == 10
DONE == "[done]"
LogoutLine == "logout"

(* Bounds of the model *)

MaxDispatches == 2      \* dispatches made by the caller
MaxOut == 2             \* output lines the CLI prints for one command
ReadChunk == 2          \* pieces one _read returns at most (stands for size=512)
MaxRequests == 3        \* requests the daemon receives
MaxCliOut == 1          \* output lines the CLI process prints for one line
MaxCodecOps == 2        \* set operations made on one dataset object
MaxBytes == 2           \* length of the byte strings given to the hex helpers
MaxStream == 4          \* bytes of a stream given to _read_line
MaxCommand == 3         \* characters of a command text given to _execute_and_check

-----------------------------------------------------------------------------
(* Texts on the line *)

CRLF == "\r\n"
LF == "\n"
CR == "\r"
Q == "\""
ESC == "ESC"                \* the byte \x1b
BS == "\\"                  \* a backslash
DOLLAR == "$HOME"           \* a parameter expansion of the shell
ESC_SEQ == "ESC[K"
PromptText == COMMISSIONER_PROMPT \o ":~$ "

ControlSequences == {ESC_SEQ}
\* the texts a piece can carry that begin with COMMISSIONER_PROMPT
PromptTexts == {COMMISSIONER_PROMPT, PromptText}

Piece(t, k) == [t |-> t, k |-> k]

Min(a, b) == IF a < b THEN a ELSE b

RECURSIVE Concat(_)
Concat(s) == IF s = <<>> THEN "" ELSE Head(s) \o Concat(Tail(s))

RECURSIVE Pad(_)
Pad(n) == IF n = 0 THEN ""
          ELSE IF n % 2 = 0 THEN LET h == Pad(n \div 2) IN h \o h
          ELSE "x" \o Pad(n - 1)

Text(line) == Concat([i \in DOMAIN line |-> line[i].t])
Texts(ls) == [i \in DOMAIN ls |-> Text(ls[i])]
Tags(line) == {line[i].k : i \in DOMAIN line}

Last(s) == s[Len(s)]
Front(s) == SubSeq(s, 1, Len(s) - 1)

-----------------------------------------------------------------------------
(* OTCommissioner: pure helpers *)

\* s without its leading pieces of a class of bytes
RECURSIVE SkipBytes(_, _)
SkipBytes(s, class) ==
    IF s # <<>> /\ Head(s).t \in class THEN SkipBytes(Tail(s), class) ELSE s

\* CONTROL_SEQUENCE matched after an ESC byte, byte by byte: `[`, parameter
\* bytes [0-?], intermediate bytes [!-/], a final byte [@-~] (of each class
\* the bytes the model's streams carry).  << >> if s does not go on as a
\* control sequence, else <<rest>> with what follows the final byte
AfterControlSequence(s) ==
    LET body == SkipBytes(SkipBytes(Tail(s), {"0", ";", "?"}), {"!", "/"})
    IN  IF s # <<>> /\ Head(s).t = "[" /\ body # <<>>
           /\ Head(body).t \in {"@", "K", "[", "a", "m", "~"}
        THEN <<Tail(body)>>
        ELSE <<>>

\* CONTROL_SEQUENCE.sub('', line) for a line with control sequences that are
\* runs of pieces of one byte each, the first of them ESC
RECURSIVE StripControlBytes(_)
StripControlBytes(line) ==
    IF line = <<>> THEN <<>>
    ELSE IF Head(line).t \in ControlSequences
    THEN StripControlBytes(Tail(line))
    ELSE IF Head(line).t = ESC /\ AfterControlSequence(Tail(line)) # <<>>
    THEN StripControlBytes(AfterControlSequence(Tail(line))[1])
    ELSE <<Head(line)>> \o StripControlBytes(Tail(line))

\* CONTROL_SEQUENCE.sub('', line): a control sequence is a piece of its own
\* or a run of pieces of one byte each
StripControl(line) ==
    IF SelectSeq(line, LAMBDA p : p.t = ESC) = <<>>
    THEN SelectSeq(line, LAMBDA p : p.t \notin ControlSequences)
    ELSE StripControlBytes(line)

\* NEW_LINE.split(tail): NEW_LINE is \r\n|\n
RECURSIVE SplitAcc(_, _, _)
SplitAcc(data, cur, acc) ==
    IF data = <<>> THEN Append(acc, cur)
    ELSE LET p == Head(data) IN
         IF p.t = CRLF THEN SplitAcc(Tail(data), <<>>, Append(acc, cur))
         ELSE IF p.t = LF
              THEN SplitAcc(Tail(data), <<>>,
                            Append(acc, IF cur # <<>> /\ Last(cur).t = CR
                                        THEN Front(cur) ELSE cur))
              ELSE SplitAcc(Tail(data), Append(cur, p), acc)

NewLineSplit(data) == SplitAcc(data, <<>>, <<>>)

\* _read(size): what one read returns, and what it leaves at the handler
ReadData(p) == SubSeq(p, 1, Min(ReadChunk, Len(p)))
ReadRest(p) == SubSeq(p, Min(ReadChunk, Len(p)) + 1, Len(p))

\* a read that does not join the unfinished line to the data that follows
ReadLineSplitsTail(ls, p) ==
    IF Len(ls) > 1
    THEN [line |-> <<StripControl(Head(ls))>>, lines |-> Tail(ls),
          pipe |-> p, read |-> FALSE]
    ELSE [line |-> <<>>, lines |-> ls \o NewLineSplit(ReadData(p)),
          pipe |-> ReadRest(p), read |-> TRUE]

\* a read that forgets the unfinished line it had buffered
ReadLineDropsTail(ls, p) ==
    IF Len(ls) > 1
    THEN [line |-> <<StripControl(Head(ls))>>, lines |-> Tail(ls),
          pipe |-> p, read |-> FALSE]
    ELSE [line |-> <<>>, lines |-> NewLineSplit(ReadData(p)),
          pipe |-> ReadRest(p), read |-> TRUE]

\* _read_line: `line` is <<>> for None and <<l>> for a returned line l
ReadLine(ls, p) ==
    IF Len(ls) > 1
    THEN [line |-> <<StripControl(Head(ls))>>, lines |-> Tail(ls),
          pipe |-> p, read |-> FALSE]
    ELSE LET tail == IF Len(ls) > 0 THEN Last(ls) ELSE <<>> IN
         [line |-> <<>>, lines |-> NewLineSplit(tail \o ReadData(p)),
          pipe |-> ReadRest(p), read |-> TRUE]

\* `if line:` is false for None and for the empty string
Truthy(l) == l # <<>> /\ Text(l[1]) # ""

\* `line == expected` in _expect
ExpectMatchesAnyLine(l, expected) == l # <<>>
ExpectMatches(l, expected) == l # <<>> /\ Text(l[1]) = expected

\* re.match(COMMISSIONER_PROMPT, line): the line begins with the prompt
PromptMatch(line) == line # <<>> /\ line[1].t \in PromptTexts

\* len(cmd) + len(COMMISSIONER_PROMPT) >= TTY_COLS
CommandTooLongOffByOne(c) == Len(c) + Len(COMMISSIONER_PROMPT) > TTY_COLS
CommandTooLong(c) == Len(c) + Len(COMMISSIONER_PROMPT) >= TTY_COLS

\* command.replace('"', r'"\""'); a command is a sequence of fragments in
\* which every double quote is a fragment of its own; so is every character
\* of the replacement
RECURSIVE EscapeQuotes(_)
EscapeQuotes(command) ==
    IF \A i \in DOMAIN command : command[i] # Q THEN command
    ELSE (IF Head(command) = Q THEN <<Q, BS, Q, Q>> ELSE <<Head(command)>>)
             \o EscapeQuotes(Tail(command))

\* bash's reading of the text s that follows `execute ` on a command line:
\* the words it passes to commissioner_ctl.py.  dq: inside double quotes;
\* cur: the word begun, if any; acc: the words finished.  Inside double
\* quotes a backslash escapes a quote, a backslash or a dollar sign and is
\* kept before anything else; outside it escapes whatever follows; a
\* parameter expansion is replaced by the parameter's value in both; a quote
\* left open at the end of the line leaves the command unfinished
RECURSIVE ShellWords(_, _, _, _)
ShellWords(s, dq, cur, acc) ==
    IF s = <<>>
    THEN IF dq THEN [err |-> "unterminated", words |-> <<>>]
         ELSE [err |-> "none", words |-> acc \o cur]
    ELSE LET c == Head(s)
             r == Tail(s)
             w == IF cur = <<>> THEN <<>> ELSE cur[1]
         IN  IF c = Q THEN ShellWords(r, ~dq, <<w>>, acc)
             ELSE IF c = BS /\ r = <<>>
             THEN [err |-> "unterminated", words |-> <<>>]
             ELSE IF c = BS /\ (~dq \/ Head(r) \in {Q, BS, DOLLAR})
             THEN ShellWords(Tail(r), dq, <<Append(w, Head(r))>>, acc)
             ELSE IF c = DOLLAR
             THEN ShellWords(r, dq, <<Append(w, "/home/pi")>>, acc)
             ELSE IF c = " " /\ ~dq
             THEN ShellWords(r, dq, <<>>, acc \o cur)
             ELSE ShellWords(r, dq, <<Append(w, c)>>, acc)

\* the arguments commissioner_ctl.py gets after `execute` for a command
ShellArguments(command) ==
    ShellWords(<<Q>> \o EscapeQuotes(command) \o <<Q>>, FALSE, <<>>, <<>>)

\* '{} execute "{}"'.format(COMMISSIONER_CTL, command)
ExecuteLine(command) ==
    COMMISSIONER_CTL \o " execute \"" \o Concat(EscapeQuotes(command)) \o "\""

ExitLine == COMMISSIONER_CTL \o " exit"

\* _check_response, the outcome of a dispatch
CheckResponseDropsMarker(resp) ==
    IF resp = <<>> THEN [kind |-> "IndexError", payload |-> <<>>]
    ELSE IF Text(Last(resp)) # DONE
         THEN [kind |-> "Error", payload |-> Texts(resp)]
         ELSE [kind |-> "Ok", payload |-> Texts(Front(resp))]
CheckResponse(resp) ==
    IF resp = <<>> THEN [kind |-> "IndexError", payload |-> <<>>]
    ELSE IF Text(Last(resp)) # DONE
         THEN [kind |-> "Error", payload |-> Texts(resp)]
         ELSE [kind |-> "Ok", payload |-> Texts(resp)]

\* _write_line: clear, one read that is thrown away, write, clear, sleep
WriteLine(ls, p, w, reaction) ==
    [lines |-> <<>>, pipe |-> ReadRest(p), wire |-> w \o reaction,
     dropped |-> (IF ls # <<>> /\ ls # << <<>> >> THEN {"buffered"} ELSE {})
                 \cup (IF ReadData(p) # <<>> THEN {"unread"} ELSE {})
                 \cup (IF ReadRest(p) # <<>> \/ w # <<>> THEN {"stale"} ELSE {})]

-----------------------------------------------------------------------------
(* The shell at the far end of the line *)

OutTexts == {"foo", DONE}
OutSeqs == UNION {[1..n -> OutTexts] : n \in 0..MaxOut}
Trailers == { <<PromptText>>,
              <<PromptText, CRLF, PromptText>>,
              <<CRLF, PromptText, CRLF, "late", CRLF, PromptText>>,
              <<ESC_SEQ, PromptText, CRLF, ESC_SEQ, PromptText>> }

RECURSIVE OutLines(_, _)
OutLines(outs, k) ==
    IF outs = <<>> THEN <<>>
    ELSE <<Piece(Head(outs), k), Piece(CRLF, k)>> \o OutLines(Tail(outs), k)

\* what the shell emits for a written line: its echo, the output of the
\* command, the prompt
ShellReaction(text, k, outs, trailer) ==
    <<Piece(text, k), Piece(CRLF, k)>> \o OutLines(outs, k)
        \o [i \in DOMAIN trailer |-> Piece(trailer[i], k)]

-----------------------------------------------------------------------------
(* Commands the caller dispatches *)

CtlOverhead == Len(ExecuteLine(<<>>))
LongestAccepted == TTY_COLS - Len(COMMISSIONER_PROMPT) - CtlOverhead - 1
ShortCommands == { <<"active">>,
                   <<"commdataset set '{", Q, "SessionId", Q, ": 1}'">> }
LongCommands == { <<Pad(LongestAccepted)>>, <<Pad(LongestAccepted + 1)>> }

NoResult == [kind |-> "none", payload |-> <<>>]

\* the session when its construction has succeeded and nothing has been
\* dispatched yet
SessionInit ==
    /\ pc = "idle"
    /\ lines = <<>>
    /\ pipe = <<>>
    /\ wire = <<>>
    /\ cmd = ""
    /\ timeout = DefaultTimeout
    /\ response = <<>>
    /\ echo = <<>>
    /\ result = NoResult
    /\ calls = 0
    /\ lastSent = ""
    /\ io = {}
    /\ dropped = {}
    /\ session = "open"
    /\ calledClosed = FALSE
    /\ stage = "ready"
    /\ initResponse = <<>>
    /\ flow = 0
    /\ broken = FALSE
    /\ logouts = 0

\* _write_line when _write raises: clear, one read that is thrown away, and
\* the exception before anything is written
WriteLineFails(ls, p) ==
    [lines |-> <<>>, pipe |-> ReadRest(p),
     dropped |-> (IF ls # <<>> /\ ls # << <<>> >> THEN {"buffered"} ELSE {})
                 \cup (IF ReadData(p) # <<>> THEN {"unread"} ELSE {})]

\* _command(cmd) up to the first poll of _expect
CommandStart(line, reaction) ==
    /\ cmd' = line
    /\ calls' = calls + 1
    /\ timeout' = DefaultTimeout
    /\ IF CommandTooLong(line)
       THEN /\ result' = [kind |-> "TooLong", payload |-> <<>>]
            /\ pc' = "idle"
            /\ io' = {}
            /\ UNCHANGED <<lines, pipe, wire, lastSent, response, echo, dropped>>
       ELSE IF broken
       THEN LET w == WriteLineFails(lines, pipe) IN
            /\ lines' = w.lines
            /\ pipe' = w.pipe
            /\ dropped' = w.dropped
            /\ io' = {"read"}
            /\ result' = [kind |-> "TransportError", payload |-> <<>>]
            /\ pc' = "idle"
            /\ UNCHANGED <<wire, lastSent, response, echo>>
       ELSE LET w == WriteLine(lines, pipe, wire, reaction) IN
            /\ lines' = w.lines
            /\ pipe' = w.pipe
            /\ wire' = w.wire
            /\ dropped' = w.dropped
            /\ lastSent' = line
            /\ io' = {"read", "write"}
            /\ result' = NoResult
            /\ response' = <<>>
            /\ echo' = <<>>
            /\ pc' = "expect"

\* the end of __exit__ over a serial handler: _write_line('logout'); the
\* shell ends and emits nothing more
Logout(ls, p) ==
    /\ session' = "closed"
    /\ logouts' = logouts + 1
    /\ IF broken
       THEN LET w == WriteLineFails(ls, p) IN
            /\ lines' = w.lines
            /\ pipe' = w.pipe
            /\ dropped' = w.dropped
            /\ io' = {"read"}
            /\ UNCHANGED lastSent
       ELSE LET w == WriteLine(ls, p, wire, <<>>) IN
            /\ lines' = w.lines
            /\ pipe' = w.pipe
            /\ dropped' = w.dropped
            /\ lastSent' = LogoutLine
            /\ io' = {"read", "write"}

\* _execute_and_check(command), called by every dispatcher method
Dispatch(command, outs, trailer) ==
    /\ pc = "idle"
    /\ stage = "ready"
    /\ session # "closing"
    /\ calls < MaxDispatches
    /\ LET line == ExecuteLine(command) IN
       CommandStart(line,
                    IF session = "closed" THEN <<>>
                    ELSE ShellReaction(line, calls + 1, outs, trailer))
    /\ calledClosed' = (calledClosed \/ session = "closed")
    /\ UNCHANGED <<session, lvars, dvars, cvars, call, framing>>

\* one pass of the loop of _expect, up to the sleep
ExpectRead ==
    /\ pc = "expect"
    /\ LET r == ReadLine(lines, pipe) IN
       /\ lines' = r.lines
       /\ pipe' = r.pipe
       /\ io' = IF r.read THEN {"read"} ELSE {}
       /\ IF ExpectMatches(r.line, cmd)
          THEN /\ echo' = r.line[1]
               /\ response' = <<>>
               /\ pc' = "accumulate"
          ELSE /\ pc' = "expect_sleep"
               /\ UNCHANGED <<echo, response>>
    /\ UNCHANGED <<wire, cmd, timeout, result, calls, lastSent, dropped,
                   session, calledClosed, lvars, dvars, cvars, call, framing>>

\* what follows an exception that leaves _command: __exit__ logs it and goes
\* on to the logout, __init__ lets it end the construction, a dispatcher
\* method lets it reach the caller
CommandRaised ==
    /\ pc' = "idle"
    /\ IF session = "closing"
       THEN Logout(lines, pipe) /\ UNCHANGED stage
       ELSE /\ io' = {}
            /\ stage' = IF stage = "ready" THEN stage ELSE "failed"
            /\ UNCHANGED <<session, lines, pipe, lastSent, dropped, logouts>>

\* _sleep(0.1) in _expect and the loop test `while timeout > 0`; after the
\* loop, the Error 'Failed to find expected string'
ExpectSleep ==
    /\ pc = "expect_sleep"
    /\ IF timeout > 0
       THEN /\ pc' = "expect"
            /\ io' = {}
            /\ UNCHANGED <<result, session, lines, pipe, lastSent, dropped,
                           stage, logouts>>
       ELSE /\ result' = [kind |-> "ExpectFailed", payload |-> <<>>]
            /\ CommandRaised
    /\ UNCHANGED <<wire, cmd, timeout, response, echo, calls, calledClosed,
                   initResponse, flow, broken, dvars, cvars, call, framing>>

\* one pass of the loop of _command, up to the sleep; at the prompt the
\* command returns: to _check_response in a dispatch, to the release of the
\* handler in __exit__, to the next statement of __init__
CommandRead ==
    /\ pc = "accumulate"
    /\ LET r == ReadLine(lines, pipe) IN
       IF Truthy(r.line) /\ PromptMatch(r.line[1])
       THEN /\ UNCHANGED <<response, wire>>
            /\ IF session = "closing"
               THEN /\ Logout(r.lines, r.pipe)
                    /\ result' = NoResult
                    /\ pc' = "idle"
                    /\ UNCHANGED stage
               ELSE /\ lines' = r.lines
                    /\ pipe' = r.pipe
                    /\ io' = IF r.read THEN {"read"} ELSE {}
                    /\ IF timeout <= 0
                       THEN /\ result' = [kind |-> "AttributeError",
                                          payload |-> <<>>]
                            /\ pc' = "idle"
                            /\ stage' = IF stage = "ready" THEN stage
                                        ELSE "failed"
                       ELSE IF stage = "ready"
                       THEN /\ result' = CheckResponse(response)
                            /\ pc' = "idle"
                            /\ UNCHANGED stage
                       ELSE /\ result' = [kind |-> "Returned",
                                          payload |-> Texts(response)]
                            /\ pc' = "returned"
                            /\ UNCHANGED stage
                    /\ UNCHANGED <<session, lastSent, dropped, logouts>>
       ELSE /\ lines' = r.lines
            /\ pipe' = r.pipe
            /\ io' = IF r.read THEN {"read"} ELSE {}
            /\ response' = IF Truthy(r.line) THEN Append(response, r.line[1])
                           ELSE response
            /\ pc' = "accumulate_sleep"
            /\ UNCHANGED <<wire, result, session, lastSent, dropped, stage,
                           logouts>>
    /\ UNCHANGED <<cmd, timeout, echo, calls, calledClosed, initResponse,
                   flow, broken, dvars, cvars, call, framing>>

\* _sleep(0.1) in _command and the loop test `while timeout > 0`; after the
\* loop, the exception of 'Failed to find end of response'
CommandSleep ==
    /\ pc = "accumulate_sleep"
    /\ IF timeout > 0
       THEN /\ pc' = "accumulate"
            /\ io' = {}
            /\ UNCHANGED <<result, session, lines, pipe, lastSent, dropped,
                           stage, logouts>>
       ELSE /\ result' = [kind |-> "AttributeError", payload |-> <<>>]
            /\ CommandRaised
    /\ UNCHANGED <<wire, cmd, timeout, response, echo, calls, calledClosed,
                   initResponse, flow, broken, dvars, cvars, call, framing>>

\* __exit__ that goes to the release of the handler without the exit command
ExitSkipsCommand(outs, trailer) ==
    /\ pc = "idle"
    /\ stage = "ready"
    /\ session = "open"
    /\ Logout(lines, pipe)
    /\ UNCHANGED <<pc, wire, cmd, timeout, response, echo, result, calls,
                   calledClosed, stage, initResponse, flow, broken, dvars,
                   cvars, call, framing>>

\* __exit__ of a session over a serial handler: the exit command, then (here
\* if the command raises at once, else when it has returned) the logout
Exit(outs, trailer) ==
    /\ pc = "idle"
    /\ stage = "ready"
    /\ session = "open"
    /\ IF broken
       THEN LET w1 == WriteLineFails(lines, pipe)
                w2 == WriteLineFails(w1.lines, w1.pipe) IN
            /\ cmd' = ExitLine
            /\ calls' = calls + 1
            /\ timeout' = DefaultTimeout
            /\ result' = [kind |-> "TransportError", payload |-> <<>>]
            /\ session' = "closed"
            /\ logouts' = logouts + 1
            /\ lines' = w2.lines
            /\ pipe' = w2.pipe
            /\ dropped' = w1.dropped \cup w2.dropped
            /\ io' = {"read"}
            /\ UNCHANGED <<pc, wire, lastSent, response, echo>>
       ELSE /\ session' = "closing"
            /\ CommandStart(ExitLine,
                            ShellReaction(ExitLine, calls + 1, outs, trailer))
            /\ UNCHANGED logouts
    /\ UNCHANGED <<calledClosed, stage, initResponse, flow, broken, dvars,
                   cvars, call, framing>>

\* the line delivers the next piece to the handler
Deliver ==
    /\ wire # <<>>
    /\ ~broken
    /\ pipe' = Append(pipe, Head(wire))
    /\ wire' = Tail(wire)
    /\ UNCHANGED <<pc, lines, cmd, timeout, response, echo, result, calls,
                   lastSent, io, dropped, session, calledClosed, lvars, dvars,
                   cvars, call, framing>>

-----------------------------------------------------------------------------
(* The lifetime of a session: __init__, the body of the `with` statement of
   example_send_mlr.py, __exit__ *)

ConfigPath == "/tmp/commissioner.UUID.json"
ConfigPayload == "{\"EnableCcm\": false, \"Id\": \"ot-commissioner\"}"
\* "echo '{}' >> '{}'".format(json.dumps(data), config_path)
ConfigLine == "echo '" \o ConfigPayload \o "' >> '" \o ConfigPath \o "'"
\* '{} init "{}"'.format(COMMISSIONER_CTL, config_path)
InitLine == COMMISSIONER_CTL \o " init \"" \o ConfigPath \o "\""
ProbeLine == "echo $?"

\* the dispatches of test_mlr: isActive, start, isActive, getSessionId, MLR
ExampleFlow == << <<"active">>, <<"start :: 49191">>, <<"active">>,
                  <<"sessionid">>,
                  <<"mlr ff04::1234:777a:1 ff05::1234:777a:2 60">> >>

\* what the shell prints for the commands of a lifetime
InitOuts == {<<>>, <<"foo">>}
ProbeOuts == {<<"0">>, <<"1">>}
FlowOuts == {<<"foo", DONE>>, <<"foo">>}
LifeTrailers == { <<>>, <<PromptText>>, <<PromptText, CRLF, PromptText>> }

\* the state when OTCommissioner(config, handler) is called
LifeInit ==
    /\ pc = "new"
    /\ lines = <<>>
    /\ pipe = <<>>
    /\ wire = <<>>
    /\ cmd = ""
    /\ timeout = DefaultTimeout
    /\ response = <<>>
    /\ echo = <<>>
    /\ result = NoResult
    /\ calls = 0
    /\ lastSent = ""
    /\ io = {}
    /\ dropped = {}
    /\ session = "open"
    /\ calledClosed = FALSE
    /\ stage = "new"
    /\ initResponse = <<>>
    /\ flow = 0
    /\ broken = FALSE
    /\ logouts = 0

\* a _command call of __init__; an exception it raises at once ends the
\* construction
ConstructCommand(line, next, outs, trailer) ==
    /\ CommandStart(line, ShellReaction(line, calls + 1, outs, trailer))
    /\ stage' = IF CommandTooLong(line) \/ broken THEN "failed" ELSE next
    /\ UNCHANGED <<session, calledClosed, flow, broken, logouts, dvars, cvars, call, framing>>

\* __init__ up to the first wait: _write_config
ConstructStart(trailer) ==
    /\ pc = "new"
    /\ ConstructCommand(ConfigLine, "config", <<>>, trailer)
    /\ UNCHANGED initResponse

\* __init__: the init command, when _write_config has returned
ConstructInit(outs, trailer) ==
    /\ pc = "returned"
    /\ stage = "config"
    /\ ConstructCommand(InitLine, "init", outs, trailer)
    /\ UNCHANGED initResponse

\* __init__: the status probe, when the init command has returned
ConstructProbe(outs, trailer) ==
    /\ pc = "returned"
    /\ stage = "init"
    /\ initResponse' = result.payload
    /\ ConstructCommand(ProbeLine, "probe", outs, trailer)

\* __init__: the test of the probe's first response line
ConstructEnd ==
    /\ pc = "returned"
    /\ stage = "probe"
    /\ pc' = "idle"
    /\ io' = {}
    /\ IF result.payload = <<>>
       THEN /\ result' = [kind |-> "IndexError", payload |-> <<>>]
            /\ stage' = "failed"
       ELSE IF result.payload[1] # "0"
       THEN /\ result' = [kind |-> "Error", payload |-> initResponse]
            /\ stage' = "failed"
       ELSE /\ result' = NoResult
            /\ stage' = "ready"
    /\ UNCHANGED <<lines, pipe, wire, cmd, timeout, response, echo, calls,
                   lastSent, dropped, session, calledClosed, initResponse,
                   flow, broken, logouts, dvars, cvars, call, framing>>

\* the next dispatch of the body of the `with` statement; the body goes on
\* only while no dispatch has raised
FlowStep(outs, trailer) ==
    /\ pc = "idle"
    /\ stage = "ready"
    /\ session = "open"
    /\ flow < Len(ExampleFlow)
    /\ flow = 0 \/ result.kind = "Ok"
    /\ LET line == ExecuteLine(ExampleFlow[flow + 1]) IN
       CommandStart(line, ShellReaction(line, calls + 1, outs, trailer))
    /\ flow' = flow + 1
    /\ UNCHANGED <<session, calledClosed, stage, initResponse, broken,
                   logouts, dvars, cvars, call, framing>>

\* from now on a write to the serial port raises; reads return nothing
LineBreaks ==
    /\ ~broken
    /\ stage # "failed"
    /\ session # "closed"
    /\ broken' = TRUE
    /\ UNCHANGED <<pc, lines, pipe, wire, cmd, timeout, response, echo, result,
                   calls, lastSent, io, dropped, session, calledClosed, stage,
                   initResponse, flow, logouts, dvars, cvars, call, framing>>

-----------------------------------------------------------------------------
(* The daemon: Application of commissionerd.py *)

\* `if self._process:` / `if not self._process:`
Registered == process

Item(t, r) == [t |-> t, r |-> r]
Job(c, r) == [c |-> c, r |-> r]

\* the pattern r'> $' of expect: the output read so far ends with the prompt
EndsWithPrompt(b) == b # <<>> /\ Last(b).t = "prompt"

\* re.match(r'^\s*exit(\s+.*)?', command); a command is a sequence of
\* fragments in which a run of white space is a fragment of its own, and so
\* are the letters `exit` where the text after the leading white space
\* begins with them; the group is optional and nothing anchors the end of
\* the pattern, so what follows `exit` does not matter
RECURSIVE SkipSpace(_)
SkipSpace(c) == IF c # <<>> /\ Head(c) = " " THEN SkipSpace(Tail(c)) ELSE c
ExitRegexMatches(c) == SkipSpace(c) # <<>> /\ Head(SkipSpace(c)) = "exit"

\* the branches of _handle_message
IsInit(m) == m.type = "control" /\ m.command = <<"init">>
IsExit(m) == \/ m.type = "control" /\ m.command = <<"exit">>
             \/ m.type = "execute" /\ ExitRegexMatches(m.command)
IsExecute(m) == m.type = "execute" /\ ~ExitRegexMatches(m.command)

Messages ==
    [type : {"control"}, command : {<<"init">>, <<"exit">>, <<"status">>}]
    \cup [type : {"execute"},
          command : {<<"active">>, <<"exit">>, <<" ", "exit", " ", "now">>,
                     <<"exit", "code">>}]

NoReply == [to |-> 0, status |-> "none", kind |-> "none", before |-> <<>>,
            prompt |-> 0]
\* {'status': 'success', 'result': ...}
Success(r, kind, before, prompt) ==
    [to |-> r, status |-> "success", kind |-> kind, before |-> before,
     prompt |-> prompt]
\* {'status': 'failure', 'traceback': ...} for an _AppException
Failure(r, kind) ==
    [to |-> r, status |-> "failure", kind |-> kind, before |-> <<>>,
     prompt |-> 0]

\* commissioner_ctl.py, main, from client.recv() on, for the answer r of the
\* daemon: its exit status and what it prints on standard output.  When
\* the daemon has ended without a reply, recv raises EOFError, which main
\* does not catch: the interpreter prints the traceback on standard error
\* and exits with status 1
ControllerMain(r) ==
    IF r.status = "failure"
    THEN [exit |-> 1, out |-> [kind |-> "Error executing command", before |-> <<>>]]
    ELSE IF r.status = "success"
    THEN [exit |-> 0, out |-> [kind |-> r.kind, before |-> r.before]]
    ELSE [exit |-> 1, out |-> [kind |-> "none", before |-> <<>>]]

DaemonInit ==
    /\ dpc = "accept"
    /\ process = FALSE
    /\ cli = "none"
    /\ cliQueue = <<>>
    /\ cliOuts = 0
    /\ buf = <<>>
    /\ msg = [type |-> "none", command |-> <<>>]
    /\ cont = "reply"
    /\ reqno = 0
    /\ reply = NoReply
    /\ answered = 0
    /\ sigints = 0
    /\ timedOut = FALSE
    /\ everTimedOut = FALSE

\* connection.send(result), back to connection.recv()
Send(r) ==
    /\ reply' = r
    /\ answered' = answered + 1
    /\ dpc' = "recv"

\* an exception other than _AppException leaves run(): no reply is sent
Crash ==
    /\ dpc' = "crashed"
    /\ UNCHANGED <<reply, answered>>

\* pexpect.spawn(self._cli_path, ...) and the start of expect(r'> $')
Spawn(r) ==
    /\ process' = TRUE
    /\ cli' = "alive"
    /\ cliQueue' = <<Job("start", r)>>
    /\ cliOuts' = 0
    /\ buf' = <<>>
    /\ dpc' = "init_wait"
    /\ UNCHANGED <<reply, answered>>

\* _exit up to expect_exact(pexpect.EOF): sendline('exit')
StartExit(r, next) ==
    /\ cliQueue' = Append(cliQueue, Job("exit", r))
    /\ cont' = next
    /\ dpc' = "exit_wait"
    /\ UNCHANGED <<process, cli, cliOuts, buf, reply, answered>>

\* self._listener.accept()
Accept ==
    /\ dpc = "accept"
    /\ dpc' = "recv"
    /\ UNCHANGED <<process, cli, cliQueue, cliOuts, buf, msg, cont, reqno,
                   reply, answered, sigints, timedOut, everTimedOut, svars, cvars, call, framing>>

\* connection.recv() raises EOFError: the client has closed the connection
Hangup ==
    /\ dpc = "recv"
    /\ dpc' = "accept"
    /\ UNCHANGED <<process, cli, cliQueue, cliOuts, buf, msg, cont, reqno,
                   reply, answered, sigints, timedOut, everTimedOut, svars, cvars, call, framing>>

\* connection.recv() and _handle_message up to its first wait
Receive(m) ==
    /\ dpc = "recv"
    /\ reqno < MaxRequests
    /\ reqno' = reqno + 1
    /\ msg' = m
    /\ sigints' = 0
    /\ timedOut' = FALSE
    /\ IF IsInit(m)
       THEN IF Registered
            THEN StartExit(reqno + 1, "spawn")
            ELSE Spawn(reqno + 1) /\ UNCHANGED cont
       ELSE IF IsExit(m)
       THEN IF Registered
            THEN StartExit(reqno + 1, "reply")
            ELSE /\ Send(Failure(reqno + 1, "CLI not started yet"))
                 /\ UNCHANGED <<process, cli, cliQueue, cliOuts, buf, cont>>
       ELSE IF IsExecute(m)
       THEN IF Registered
            THEN /\ cliQueue' = Append(cliQueue, Job("run", reqno + 1))
                 /\ dpc' = "exec_wait"
                 /\ UNCHANGED <<process, cli, cliOuts, buf, cont, reply, answered>>
            ELSE /\ Send(Failure(reqno + 1, "CLI not started yet"))
                 /\ UNCHANGED <<process, cli, cliQueue, cliOuts, buf, cont>>
       ELSE \* `assert result is not None` fails
            /\ Crash
            /\ UNCHANGED <<process, cli, cliQueue, cliOuts, buf, cont>>
    /\ UNCHANGED <<everTimedOut, svars, cvars, call, framing>>

\* _init: expect(r'> $') returns
InitPrompt ==
    /\ dpc = "init_wait"
    /\ EndsWithPrompt(buf)
    /\ Send(Success(reqno, "output", Front(buf), Last(buf).r))
    /\ buf' = <<>>
    /\ UNCHANGED <<process, cli, cliQueue, cliOuts, msg, cont, reqno, sigints,
                   timedOut, everTimedOut, svars, cvars, call, framing>>

\* _init: expect raises EOF; _handle_message calls _discard_process_with_error
InitEOF ==
    /\ dpc = "init_wait"
    /\ cli = "dead"
    /\ ~EndsWithPrompt(buf)
    /\ process' = FALSE
    /\ Send(Failure(reqno, "CLI process exited with error"))
    /\ UNCHANGED <<cli, cliQueue, cliOuts, buf, msg, cont, reqno, sigints,
                   timedOut, everTimedOut, svars, cvars, call, framing>>

\* _init: expect raises TIMEOUT, which nothing catches
InitTimeout ==
    /\ dpc = "init_wait"
    /\ cli = "alive"
    /\ ~EndsWithPrompt(buf)
    /\ Crash
    /\ UNCHANGED <<process, cli, cliQueue, cliOuts, buf, msg, cont, reqno,
                   sigints, timedOut, everTimedOut, svars, cvars, call, framing>>

\* _execute_command: expect(r'> $') returns
ExecPrompt ==
    /\ dpc = "exec_wait"
    /\ EndsWithPrompt(buf)
    /\ Send(Success(reqno, "output", Front(buf), Last(buf).r))
    /\ buf' = <<>>
    /\ UNCHANGED <<process, cli, cliQueue, cliOuts, msg, cont, reqno, sigints,
                   timedOut, everTimedOut, svars, cvars, call, framing>>

\* _execute_command: expect raises TIMEOUT; kill(sig=signal.SIGINT) and the
\* start of expect(r'> $', timeout=1)
ExecTimeout ==
    /\ dpc = "exec_wait"
    /\ cli = "alive"
    /\ ~EndsWithPrompt(buf)
    /\ sigints' = sigints + 1
    /\ timedOut' = TRUE
    /\ everTimedOut' = TRUE
    /\ dpc' = "grace_wait"
    /\ UNCHANGED <<process, cli, cliQueue, cliOuts, buf, msg, cont, reqno,
                   reply, answered, svars, cvars, call, framing>>

\* _execute_command: the second expect returns within the grace window
GracePrompt ==
    /\ dpc = "grace_wait"
    /\ EndsWithPrompt(buf)
    /\ Send(Success(reqno, "Timed out executing", Front(buf), Last(buf).r))
    /\ buf' = <<>>
    /\ UNCHANGED <<process, cli, cliQueue, cliOuts, msg, cont, reqno, sigints,
                   timedOut, everTimedOut, svars, cvars, call, framing>>

\* _execute_command: the second expect raises TIMEOUT: _AppException
GraceTimeout ==
    /\ dpc = "grace_wait"
    /\ cli = "alive"
    /\ ~EndsWithPrompt(buf)
    /\ Send(Failure(reqno, "TIMEOUT"))
    /\ UNCHANGED <<process, cli, cliQueue, cliOuts, buf, msg, cont, reqno,
                   sigints, timedOut, everTimedOut, svars, cvars, call, framing>>

\* _execute_command: either expect raises EOF, which nothing catches
ExecEOF ==
    /\ dpc \in {"exec_wait", "grace_wait"}
    /\ cli = "dead"
    /\ ~EndsWithPrompt(buf)
    /\ Crash
    /\ UNCHANGED <<process, cli, cliQueue, cliOuts, buf, msg, cont, reqno,
                   sigints, timedOut, everTimedOut, svars, cvars, call, framing>>

\* an _exit that, at EOF, does not reset the states
ExitEOFKeepsProcess ==
    /\ dpc = "exit_wait"
    /\ cli = "dead"
    /\ IF cont = "spawn"
       THEN Spawn(reqno)
       ELSE /\ Send(Success(reqno, "exit", buf, 0))
            /\ UNCHANGED <<process, cli, cliQueue, cliOuts, buf>>
    /\ UNCHANGED <<msg, cont, reqno, sigints, timedOut, everTimedOut, svars, cvars, call, framing>>

\* _exit: expect_exact(pexpect.EOF) returns; _reset_states; then the reply,
\* or the spawn of _init
ExitEOF ==
    /\ dpc = "exit_wait"
    /\ cli = "dead"
    /\ IF cont = "spawn"
       THEN Spawn(reqno)
       ELSE /\ process' = FALSE
            /\ Send(Success(reqno, "exit", buf, 0))
            /\ UNCHANGED <<cli, cliQueue, cliOuts, buf>>
    /\ UNCHANGED <<msg, cont, reqno, sigints, timedOut, everTimedOut, svars, cvars, call, framing>>

\* an _exit that, on TIMEOUT, forgets the process without terminating it
ExitTimeoutLeavesProcess ==
    /\ dpc = "exit_wait"
    /\ cli = "alive"
    /\ process' = FALSE
    /\ Send(Failure(reqno, "TIMEOUT"))
    /\ UNCHANGED <<cli, cliQueue, cliOuts, buf, msg, cont, reqno, sigints,
                   timedOut, everTimedOut, svars, cvars, call, framing>>

\* _exit: expect_exact raises TIMEOUT: terminate(force=True), _reset_states,
\* _AppException
ExitTimeout ==
    /\ dpc = "exit_wait"
    /\ cli = "alive"
    /\ cli' = "dead"
    /\ process' = FALSE
    /\ Send(Failure(reqno, "TIMEOUT"))
    /\ UNCHANGED <<cliQueue, cliOuts, buf, msg, cont, reqno, sigints, timedOut,
                   everTimedOut, svars, cvars, call, framing>>

(* The CLI process *)

\* the CLI process prints a line of output for the line it is working on
CliOutput ==
    /\ cli = "alive"
    /\ cliQueue # <<>>
    /\ Head(cliQueue).c # "exit"
    /\ cliOuts < MaxCliOut
    /\ buf' = Append(buf, Item("out", Head(cliQueue).r))
    /\ cliOuts' = cliOuts + 1
    /\ UNCHANGED <<dpc, process, cli, cliQueue, msg, cont, reqno, reply,
                   answered, sigints, timedOut, everTimedOut, svars, cvars, call, framing>>

\* the CLI process finishes the line it is working on and prints its prompt
CliPrompt ==
    /\ cli = "alive"
    /\ cliQueue # <<>>
    /\ Head(cliQueue).c # "exit"
    /\ buf' = Append(buf, Item("prompt", Head(cliQueue).r))
    /\ cliQueue' = Tail(cliQueue)
    /\ cliOuts' = 0
    /\ UNCHANGED <<dpc, process, cli, msg, cont, reqno, reply, answered,
                   sigints, timedOut, everTimedOut, svars, cvars, call, framing>>

\* the CLI process reads `exit` and ends
CliExit ==
    /\ cli = "alive"
    /\ cliQueue # <<>>
    /\ Head(cliQueue).c = "exit"
    /\ cli' = "dead"
    /\ UNCHANGED <<dpc, process, cliQueue, cliOuts, buf, msg, cont, reqno,
                   reply, answered, sigints, timedOut, everTimedOut, svars, cvars, call, framing>>

\* the CLI process ends by itself (a crash, a signal it does not handle)
CliDie ==
    /\ cli = "alive"
    /\ cli' = "dead"
    /\ UNCHANGED <<dpc, process, cliQueue, cliOuts, buf, msg, cont, reqno,
                   reply, answered, sigints, timedOut, everTimedOut, svars, cvars, call, framing>>

-----------------------------------------------------------------------------
(* The dataset codec *)

(* TLV type ids of commissioner.py *)
TLV_TYPE_BORDER_AGENT_LOCATOR == 9
TLV_TYPE_COMM_SESSION_ID == 11
TLV_TYPE_STEERING_DATA == 8
TLV_TYPE_AE_STEERING_DATA == 61
TLV_TYPE_NMKP_STEERING_DATA == 62
TLV_TYPE_JOINER_UDP_PORT == 18
TLV_TYPE_AE_UDP_PORT == 65
TLV_TYPE_NMKP_UDP_PORT == 66
TLV_TYPE_ACTIVE_TIMESTAMP == 14
TLV_TYPE_CHANNEL == 0
TLV_TYPE_CHANNEL_MASK == 53
TLV_TYPE_EXTENDED_PAN_ID == 2
TLV_TYPE_MESH_LOCAL_PREFIX == 7
TLV_TYPE_NETWORK_MASTER_KEY == 5
TLV_TYPE_NETWORK_NAME == 3
TLV_TYPE_PAN_ID == 1
TLV_TYPE_PSKC == 4
TLV_TYPE_SECURITY_POLICY == 12
TLV_TYPE_DELAY_TIMER == 52
TLV_TYPE_PENDING_TIMESTAMP == 51
TLV_TYPE_TRI_HOSTNAME == 67
TLV_TYPE_REGISTRAR_HOSTNAME == 69
TLV_TYPE_REGISTRAR_IPv6_ADDR == 68

\* the items of the dict display TLV_TYPE_TO_STRING, in order
TlvItems ==
    << <<TLV_TYPE_BORDER_AGENT_LOCATOR, "BorderAgentLocator">>,
       <<TLV_TYPE_COMM_SESSION_ID, "SessionId">>,
       <<TLV_TYPE_STEERING_DATA, "SteeringData">>,
       <<TLV_TYPE_AE_STEERING_DATA, "AeSteeringData">>,
       <<TLV_TYPE_NMKP_STEERING_DATA, "NmkpSteeringData">>,
       <<TLV_TYPE_JOINER_UDP_PORT, "JoinerUdpPort">>,
       <<TLV_TYPE_AE_UDP_PORT, "AeUdpPort">>,
       <<TLV_TYPE_NMKP_UDP_PORT, "NmkpUdpPort">>,
       <<TLV_TYPE_ACTIVE_TIMESTAMP, "ActiveTimestamp">>,
       <<TLV_TYPE_CHANNEL, "Channel">>,
       <<TLV_TYPE_CHANNEL_MASK, "ChannelMask">>,
       <<TLV_TYPE_EXTENDED_PAN_ID, "ExtendedPanId">>,
       <<TLV_TYPE_MESH_LOCAL_PREFIX, "MeshLocalPrefix">>,
       <<TLV_TYPE_NETWORK_MASTER_KEY, "NetworkMasterKey">>,
       <<TLV_TYPE_NETWORK_NAME, "NetworkName">>,
       <<TLV_TYPE_PAN_ID, "PanId">>,
       <<TLV_TYPE_PSKC, "PSKc">>,
       <<TLV_TYPE_SECURITY_POLICY, "SecurityPolicy">>,
       <<TLV_TYPE_DELAY_TIMER, "DelayTimer">>,
       <<TLV_TYPE_PENDING_TIMESTAMP, "PendingTimestamp">>,
       <<TLV_TYPE_TRI_HOSTNAME, "TriHostname">>,
       <<TLV_TYPE_REGISTRAR_HOSTNAME, "RegistrarHostname">>,
       <<TLV_TYPE_REGISTRAR_IPv6_ADDR, "RegistrarIpv6Addr">> >>

\* a dict built from items in order: a later item replaces an earlier one
\* of the same key
DictOf(items) ==
    [k \in {items[i][1] : i \in DOMAIN items} |->
        items[CHOOSE i \in DOMAIN items :
                  /\ items[i][1] = k
                  /\ \A j \in DOMAIN items : j > i => items[j][1] # k][2]]

TLV_TYPE_TO_STRING == DictOf(TlvItems)

\* a table in which PSKc is given the id of PanId
TLV_TYPE_FROM_STRING_Clash ==
    [n \in {TlvItems[i][2] : i \in DOMAIN TlvItems} |->
        IF n = "PSKc" THEN TLV_TYPE_PAN_ID
        ELSE TlvItems[CHOOSE i \in DOMAIN TlvItems : TlvItems[i][2] = n][1]]
\* {TLV_TYPE_TO_STRING[key]: key for key in TLV_TYPE_TO_STRING}
TLV_TYPE_FROM_STRING ==
    DictOf([i \in DOMAIN TlvItems |->
               <<TLV_TYPE_TO_STRING[TlvItems[i][1]], TlvItems[i][1]>>])

(* Values.  A value is a record whose field names tell its type: a number
   [int |-> n], a string [str |-> characters], a byte string
   [bytes |-> sequence of 0..255], a list [list |-> items], an object of one
   of the dataset classes of commissioner.py (lower-case attributes) or a
   JSON object (capitalised keys). *)

Timestamp(seconds, ticks, u) == [seconds |-> seconds, ticks |-> ticks, u |-> u]
Channel(number, page) == [number |-> number, page |-> page]
ChannelMaskEntry(masks, page) == [masks |-> masks, page |-> page]
SecurityPolicy(rotationTime, flags) ==
    [rotationTime |-> rotationTime, flags |-> flags]

\* the outcome of a conversion: a value, or the exception raised
Ok(v) == [err |-> "none", v |-> v]
Raise(e) == [err |-> e, v |-> <<>>]

\* the hexadecimal digits: as hexlify writes them, and as fromhex also
\* reads them
HexDigits ==
    << <<"0", "0">>, <<"1", "1">>, <<"2", "2">>, <<"3", "3">>, <<"4", "4">>,
       <<"5", "5">>, <<"6", "6">>, <<"7", "7">>, <<"8", "8">>, <<"9", "9">>,
       <<"a", "A">>, <<"b", "B">>, <<"c", "C">>, <<"d", "D">>, <<"e", "E">>,
       <<"f", "F">> >>

\* the value of a hexadecimal digit, -1 for any other character
HexValue(c) ==
    IF \E i \in DOMAIN HexDigits : c \in {HexDigits[i][1], HexDigits[i][2]}
    THEN (CHOOSE i \in DOMAIN HexDigits :
              c \in {HexDigits[i][1], HexDigits[i][2]}) - 1
    ELSE -1

\* binascii.hexlify(bytearray(byte_string)).decode()
BytesToHex(v) ==
    IF DOMAIN v = {"bytes"}
    THEN Ok([str |-> [i \in 1..(2 * Len(v.bytes)) |->
                LET b == v.bytes[(i + 1) \div 2] IN
                HexDigits[(IF i % 2 = 1 THEN b \div 16 ELSE b % 16) + 1][1]]])
    ELSE Raise("TypeError")

\* a decoder that reads the low digit of a byte first
HexToBytesLowFirst(v) ==
    Ok([bytes |-> [i \in 1..(Len(v.str) \div 2) |->
            16 * HexValue(v.str[2 * i]) + HexValue(v.str[2 * i - 1])]])
\* bytes(bytearray.fromhex(hex_string))
HexToBytes(v) ==
    IF DOMAIN v # {"str"} THEN Raise("TypeError")
    ELSE IF Len(v.str) % 2 # 0 \/ \E i \in DOMAIN v.str : HexValue(v.str[i]) < 0
    THEN Raise("ValueError")
    ELSE Ok([bytes |-> [i \in 1..(Len(v.str) \div 2) |->
                16 * HexValue(v.str[2 * i - 1]) + HexValue(v.str[2 * i])]])

\* _timestamp_to_json_obj
TimestampToJsonObj(v) ==
    IF {"seconds", "ticks", "u"} \subseteq DOMAIN v
    THEN Ok([Seconds |-> v.seconds, Ticks |-> v.ticks,
             U |-> IF v.u THEN 1 ELSE 0])
    ELSE Raise("AttributeError")

\* a decoding that reads U the wrong way round
TimestampFromJsonObjInverted(j) ==
    IF {"Seconds", "Ticks", "U"} \subseteq DOMAIN j
    THEN Ok([seconds |-> j.Seconds, ticks |-> j.Ticks, u |-> j.U = 0])
    ELSE Raise("KeyError")

\* _timestamp_from_json_obj
TimestampFromJsonObj(j) ==
    IF {"Seconds", "Ticks", "U"} \subseteq DOMAIN j
    THEN Ok(Timestamp(j.Seconds, j.Ticks, IF j.U = 0 THEN FALSE ELSE TRUE))
    ELSE Raise("KeyError")

\* _channel_mask_to_json_obj
ChannelMaskToJsonObj(v) ==
    IF DOMAIN v # {"list"} THEN Raise("TypeError")
    ELSE IF \E i \in DOMAIN v.list : ~({"masks", "page"} \subseteq DOMAIN v.list[i])
    THEN Raise("AttributeError")
    ELSE IF \E i \in DOMAIN v.list : BytesToHex(v.list[i].masks).err # "none"
    THEN Raise("TypeError")
    ELSE Ok([list |-> [i \in DOMAIN v.list |->
                [Masks |-> BytesToHex(v.list[i].masks).v,
                 Page |-> v.list[i].page]]])

\* a decoder that returns the entries in reverse order
ChannelMaskFromJsonObjReversed(j) ==
    Ok([list |-> [i \in DOMAIN j.list |->
            LET e == j.list[Len(j.list) + 1 - i] IN
            ChannelMaskEntry(HexToBytes(e.Masks).v, e.Page)]])
\* _channel_mask_from_json_obj
ChannelMaskFromJsonObj(j) ==
    IF DOMAIN j # {"list"} THEN Raise("TypeError")
    ELSE IF \E i \in DOMAIN j.list : ~({"Masks", "Page"} \subseteq DOMAIN j.list[i])
    THEN Raise("KeyError")
    ELSE IF \E i \in DOMAIN j.list : HexToBytes(j.list[i].Masks).err # "none"
    THEN Raise("ValueError")
    ELSE Ok([list |-> [i \in DOMAIN j.list |->
                ChannelMaskEntry(HexToBytes(j.list[i].Masks).v,
                                 j.list[i].Page)]])

\* the conversions of the values of a dataset, by the name of the helper;
\* for a Channel and a SecurityPolicy the dict or the object built in place
Convert(kind, v) ==
    CASE kind = "_timestamp_to_json_obj" -> TimestampToJsonObj(v)
      [] kind = "_timestamp_from_json_obj" -> TimestampFromJsonObj(v)
      [] kind = "_channel_mask_to_json_obj" -> ChannelMaskToJsonObj(v)
      [] kind = "_channel_mask_from_json_obj" -> ChannelMaskFromJsonObj(v)
      [] kind = "_bytes_to_hex" -> BytesToHex(v)
      [] kind = "_hex_to_bytes" -> HexToBytes(v)
      [] kind = "Channel to dict" ->
             IF {"number", "page"} \subseteq DOMAIN v
             THEN Ok([Number |-> v.number, Page |-> v.page])
             ELSE Raise("AttributeError")
      [] kind = "Channel" ->
             IF {"Number", "Page"} \subseteq DOMAIN v
             THEN Ok(Channel(v.Number, v.Page))
             ELSE Raise("KeyError")
      [] kind = "SecurityPolicy to dict" ->
             IF {"flags", "rotationTime"} \subseteq DOMAIN v
             THEN Ok([Flags |-> v.flags, RotationTime |-> v.rotationTime])
             ELSE Raise("AttributeError")
      [] kind = "SecurityPolicy" ->
             IF {"Flags", "RotationTime"} \subseteq DOMAIN v
             THEN Ok(SecurityPolicy(v.RotationTime, v.Flags))
             ELSE Raise("KeyError")

\* `if key in d: d[key] = <conversion>(d[key])`, on a dict that may already
\* have seen an exception
ApplyField(st, key, kind) ==
    IF st.err # "none" \/ key \notin DOMAIN st.ds THEN st
    ELSE LET c == Convert(kind, st.ds[key]) IN
         IF c.err # "none" THEN [st EXCEPT !.err = c.err]
         ELSE [st EXCEPT !.ds = [st.ds EXCEPT ![key] = c.v]]

\* what json.dumps accepts
Serializable(v) ==
    \/ DOMAIN v \in {{"int"}, {"str"}, {"Seconds", "Ticks", "U"},
                     {"Number", "Page"}, {"Flags", "RotationTime"}}
    \/ /\ DOMAIN v = {"list"}
       /\ \A i \in DOMAIN v.list :
              /\ DOMAIN v.list[i] = {"Masks", "Page"}
              /\ DOMAIN v.list[i].Masks = {"str"}

\* {TLV_TYPE_TO_STRING[key]: dataset[key] for key in dataset} and json.dumps
DumpByName(d) ==
    IF ~(DOMAIN d \subseteq DOMAIN TLV_TYPE_TO_STRING) THEN Raise("KeyError")
    ELSE IF \E k \in DOMAIN d : ~Serializable(d[k]) THEN Raise("TypeError")
    ELSE Ok([n \in {TLV_TYPE_TO_STRING[k] : k \in DOMAIN d} |->
                d[CHOOSE k \in DOMAIN d : TLV_TYPE_TO_STRING[k] = n]])

\* a renaming that leaves out the keys it does not know
LoadByNameSkipping(j) ==
    [err |-> "none",
     ds |-> [t \in {TLV_TYPE_FROM_STRING[n] :
                       n \in DOMAIN j \cap DOMAIN TLV_TYPE_FROM_STRING} |->
                j[CHOOSE n \in DOMAIN j \cap DOMAIN TLV_TYPE_FROM_STRING :
                      TLV_TYPE_FROM_STRING[n] = t]]]
\* json.loads and {TLV_TYPE_FROM_STRING[key]: result[key] for key in result}
LoadByName(j) ==
    IF ~(DOMAIN j \subseteq DOMAIN TLV_TYPE_FROM_STRING)
    THEN [err |-> "KeyError", ds |-> <<>>]
    ELSE [err |-> "none",
          ds |-> [t \in {TLV_TYPE_FROM_STRING[n] : n \in DOMAIN j} |->
                     j[CHOOSE n \in DOMAIN j : TLV_TYPE_FROM_STRING[n] = t]]]

\* the outcome of an encoder whose conversions ended in st: the exception or
\* "none", the caller's dict as the call leaves it, and the JSON on success
Encoded(st) ==
    IF st.err # "none" THEN [err |-> st.err, ds |-> st.ds, json |-> <<>>]
    ELSE [err |-> DumpByName(st.ds).err, ds |-> st.ds,
          json |-> DumpByName(st.ds).v]

\* _active_op_dataset_to_json(dataset)
ActiveOpDatasetToJson(d) ==
    LET s0 == [err |-> "none", ds |-> d]
        s1 == ApplyField(s0, TLV_TYPE_ACTIVE_TIMESTAMP, "_timestamp_to_json_obj")
        s2 == ApplyField(s1, TLV_TYPE_CHANNEL, "Channel to dict")
        s3 == ApplyField(s2, TLV_TYPE_CHANNEL_MASK, "_channel_mask_to_json_obj")
        s4 == ApplyField(s3, TLV_TYPE_EXTENDED_PAN_ID, "_bytes_to_hex")
        s5 == ApplyField(s4, TLV_TYPE_NETWORK_MASTER_KEY, "_bytes_to_hex")
        s6 == ApplyField(s5, TLV_TYPE_SECURITY_POLICY, "SecurityPolicy to dict")
    IN  Encoded(s6)

\* an encoder that leaves PendingTimestamp as it is
PendingOpDatasetToJsonAsActive(d) == ActiveOpDatasetToJson(d)
\* _pending_op_dataset_to_json(dataset)
PendingOpDatasetToJson(d) ==
    LET s0 == [err |-> "none", ds |-> d]
        s1 == ApplyField(s0, TLV_TYPE_PENDING_TIMESTAMP, "_timestamp_to_json_obj")
    IN  IF s1.err # "none" THEN Encoded(s1) ELSE ActiveOpDatasetToJson(s1.ds)

\* _active_op_dataset_from_json(json_str): the exception or "none", and the
\* dict as the conversions left it
ActiveOpDatasetFromJson(j) ==
    LET s0 == LoadByName(j)
        s1 == ApplyField(s0, TLV_TYPE_ACTIVE_TIMESTAMP, "_timestamp_from_json_obj")
        s2 == ApplyField(s1, TLV_TYPE_CHANNEL, "Channel")
        s3 == ApplyField(s2, TLV_TYPE_CHANNEL_MASK, "_channel_mask_from_json_obj")
        s4 == ApplyField(s3, TLV_TYPE_EXTENDED_PAN_ID, "_hex_to_bytes")
        s5 == ApplyField(s4, TLV_TYPE_NETWORK_MASTER_KEY, "_hex_to_bytes")
        s6 == ApplyField(s5, TLV_TYPE_SECURITY_POLICY, "SecurityPolicy")
    IN  s6

\* _pending_op_dataset_from_json(json_str)
PendingOpDatasetFromJson(j) ==
    ApplyField(ActiveOpDatasetFromJson(j), TLV_TYPE_PENDING_TIMESTAMP,
               "_timestamp_from_json_obj")

(* The datasets a caller builds and the JSON a response carries *)

\* a key that is not a registered TLV type id
UnknownTlv == CHOOSE t \in 0..255 : t \notin DOMAIN TLV_TYPE_TO_STRING

\* the values a caller gives to the keys of a dataset
DataValues ==
    (TLV_TYPE_ACTIVE_TIMESTAMP :>
        {Timestamp(128, 12, FALSE), Timestamp(1, 0, TRUE)})
    @@ (TLV_TYPE_CHANNEL :> {Channel(19, 0)})
    @@ (TLV_TYPE_CHANNEL_MASK :>
        {[list |-> <<ChannelMaskEntry([bytes |-> <<0, 31, 248, 0>>], 0)>>],
         [list |-> <<ChannelMaskEntry([bytes |-> <<255>>], 2),
                     ChannelMaskEntry([bytes |-> <<0, 31>>], 0)>>]})
    @@ (TLV_TYPE_EXTENDED_PAN_ID :> {[bytes |-> <<222, 173, 0, 190>>]})
    @@ (TLV_TYPE_NETWORK_MASTER_KEY :>
        {[bytes |-> <<0, 17, 255>>], [bytes |-> <<>>]})
    @@ (TLV_TYPE_SECURITY_POLICY :> {SecurityPolicy(100, 248)})
    @@ (TLV_TYPE_PAN_ID :> {[int |-> 64206]})
    @@ (TLV_TYPE_PENDING_TIMESTAMP :> {Timestamp(129, 12, FALSE)})
    @@ (TLV_TYPE_STEERING_DATA :> {[bytes |-> <<255, 255>>]})
    @@ (UnknownTlv :> {[int |-> 7]})

\* the values a response gives to the names of its JSON object
JsonValues ==
    ("ActiveTimestamp" :> {[Seconds |-> 128, Ticks |-> 12, U |-> 1]})
    @@ ("ChannelMask" :>
        {[list |-> <<[Masks |-> [str |-> <<"0", "0", "1", "F">>], Page |-> 0]>>]})
    @@ ("ExtendedPanId" :>
        {[str |-> <<"d", "e", "a", "d">>], [str |-> <<"x", "y">>]})
    @@ ("PanId" :> {[int |-> 64206]})
    @@ ("SteeringData" :> {[str |-> <<"f", "f">>], [str |-> <<"f">>]})
    @@ ("PendingTimestamp" :> {[Seconds |-> 129, Ticks |-> 0, U |-> 0]})
    @@ ("Bogus" :> {[int |-> 7]})

\* the dicts over the keys K, the value of key k drawn from Values[k]
RECURSIVE Dicts(_, _)
Dicts(K, Values) ==
    IF K = {} THEN {<<>>}
    ELSE LET k == CHOOSE x \in K : TRUE IN
         {[x \in DOMAIN f \cup {k} |-> IF x = k THEN v ELSE f[x]] :
              f \in Dicts(K \ {k}, Values), v \in Values[k]}

Datasets == UNION {Dicts(K, DataValues) : K \in SUBSET DOMAIN DataValues}
ResponseJsons == UNION {Dicts(K, JsonValues) : K \in SUBSET DOMAIN JsonValues}

CodecInit ==
    /\ ds = <<>>
    /\ given = <<>>
    /\ enc = [op |-> "none", err |-> "none", ds |-> <<>>, json |-> <<>>,
              command |-> <<>>]
    /\ dec = [op |-> "none", err |-> "none", ds |-> <<>>, input |-> <<>>]
    /\ tlv = [op |-> "none", id |-> 0, name |-> "", rid |-> 0, rname |-> ""]
    /\ cops = 0

\* the caller builds a dataset
Build(d) ==
    /\ cops = 0
    /\ given = <<>>
    /\ tlv.op = "none"
    /\ d # <<>>
    /\ ds' = d
    /\ given' = d
    /\ UNCHANGED <<enc, dec, tlv, cops, svars, dvars, call, framing>>

\* a set operation up to its call of _execute_and_check: the encoder works
\* on the caller's dict; e is its outcome, and the command is handed on only
\* if the encoder has raised nothing
SetOperation(op, words, e) ==
    /\ cops < MaxCodecOps
    /\ tlv.op = "none"
    /\ dec.op = "none"
    /\ cops' = cops + 1
    /\ ds' = e.ds
    /\ enc' = [op |-> op, err |-> e.err, ds |-> e.ds, json |-> e.json,
               command |-> IF e.err = "none" THEN words ELSE <<>>]
    /\ UNCHANGED <<given, dec, tlv, svars, dvars, call, framing>>

MGMT_ACTIVE_SET ==
    SetOperation("active", <<"opdataset", "set", "active">>,
                 ActiveOpDatasetToJson(ds))

MGMT_PENDING_SET ==
    SetOperation("pending", <<"opdataset", "set", "pending">>,
                 PendingOpDatasetToJson(ds))

MGMT_COMMISSIONER_SET ==
    LET s0 == [err |-> "none", ds |-> ds]
        s1 == ApplyField(s0, TLV_TYPE_STEERING_DATA, "_bytes_to_hex")
        s2 == ApplyField(s1, TLV_TYPE_AE_STEERING_DATA, "_bytes_to_hex")
        s3 == ApplyField(s2, TLV_TYPE_NMKP_STEERING_DATA, "_bytes_to_hex")
    IN  SetOperation("commissioner", <<"commdataset", "set">>, Encoded(s3))

MGMT_BBR_SET ==
    SetOperation("bbr", <<"bbrdataset", "set">>,
                 Encoded([err |-> "none", ds |-> ds]))

\* a get operation after _execute_and_check has returned the response: d is
\* the outcome of its try block on the JSON j, and every exception becomes a
\* commissioner.Error
GetOperation(op, j, d) ==
    /\ cops = 0
    /\ given = <<>>
    /\ tlv.op = "none"
    /\ cops' = MaxCodecOps
    /\ dec' = [op |-> op, err |-> IF d.err = "none" THEN "none" ELSE "Error",
               ds |-> IF d.err = "none" THEN d.ds ELSE <<>>, input |-> j]
    /\ UNCHANGED <<ds, given, enc, tlv, svars, dvars, call, framing>>

MGMT_ACTIVE_GET(j) == GetOperation("active", j, ActiveOpDatasetFromJson(j))

MGMT_PENDING_GET(j) == GetOperation("pending", j, PendingOpDatasetFromJson(j))

MGMT_COMMISSIONER_GET(j) ==
    LET s0 == LoadByName(j)
        s1 == ApplyField(s0, TLV_TYPE_STEERING_DATA, "_hex_to_bytes")
        s2 == ApplyField(s1, TLV_TYPE_AE_STEERING_DATA, "_hex_to_bytes")
        s3 == ApplyField(s2, TLV_TYPE_NMKP_STEERING_DATA, "_hex_to_bytes")
    IN  GetOperation("commissioner", j, s3)

MGMT_BBR_GET(j) == GetOperation("bbr", j, LoadByName(j))

\* the decoder of a dataset applied to what its encoder returned
DecodeEncoded ==
    /\ enc.op \in {"active", "pending"}
    /\ enc.err = "none"
    /\ dec.op = "none"
    /\ LET d == IF enc.op = "active" THEN ActiveOpDatasetFromJson(enc.json)
                ELSE PendingOpDatasetFromJson(enc.json) IN
       dec' = [op |-> "decode", err |-> d.err,
               ds |-> IF d.err = "none" THEN d.ds ELSE <<>>,
               input |-> enc.json]
    /\ UNCHANGED <<ds, given, enc, tlv, cops, svars, dvars, call, framing>>

\* the byte strings given to the hex helpers
ByteStrings == UNION {[1..n -> {0, 10, 171, 255}] : n \in 0..MaxBytes}

\* _hex_to_bytes(_bytes_to_hex(b))
HexRoundTrip(b) ==
    /\ cops = 0
    /\ given = <<>>
    /\ tlv.op = "none"
    /\ cops' = MaxCodecOps
    /\ LET h == BytesToHex([bytes |-> b])
           d == HexToBytes(h.v)
       IN  /\ enc' = [op |-> "hex", err |-> h.err, ds |-> [bytes |-> b],
                      json |-> h.v, command |-> <<>>]
           /\ dec' = [op |-> "hex", err |-> d.err, ds |-> d.v, input |-> h.v]
    /\ UNCHANGED <<ds, given, tlv, svars, dvars, call, framing>>

\* the timestamps a caller builds, and the JSON timestamps of a response
Timestamps == {Timestamp(s, k, u) : s \in {0, 1, 128}, k \in {0, 12, 32767},
                                    u \in BOOLEAN}
JsonTimestamps == {[Seconds |-> s, Ticks |-> k, U |-> u] :
                       s \in {0, 1, 128}, k \in {0, 12, 32767}, u \in {0, 1, 2}}

\* _timestamp_from_json_obj(_timestamp_to_json_obj(t))
TimestampRoundTrip(t) ==
    /\ cops = 0
    /\ given = <<>>
    /\ tlv.op = "none"
    /\ cops' = MaxCodecOps
    /\ LET e == TimestampToJsonObj(t)
           d == TimestampFromJsonObj(e.v)
       IN  /\ enc' = [op |-> "timestamp", err |-> e.err, ds |-> t,
                      json |-> e.v, command |-> <<>>]
           /\ dec' = [op |-> "timestamp", err |-> d.err, ds |-> d.v,
                      input |-> e.v]
    /\ UNCHANGED <<ds, given, tlv, svars, dvars, call, framing>>

\* _timestamp_to_json_obj(_timestamp_from_json_obj(j))
JsonTimestampRoundTrip(j) ==
    /\ cops = 0
    /\ given = <<>>
    /\ tlv.op = "none"
    /\ cops' = MaxCodecOps
    /\ LET d == TimestampFromJsonObj(j)
           e == TimestampToJsonObj(d.v)
       IN  /\ dec' = [op |-> "jsonTimestamp", err |-> d.err, ds |-> d.v,
                      input |-> j]
           /\ enc' = [op |-> "jsonTimestamp", err |-> e.err, ds |-> d.v,
                      json |-> e.v, command |-> <<>>]
    /\ UNCHANGED <<ds, given, tlv, svars, dvars, call, framing>>

\* a lookup in TLV_TYPE_TO_STRING, and of its result in TLV_TYPE_FROM_STRING
NameOfId(t) ==
    /\ cops = 0
    /\ given = <<>>
    /\ LET n == TLV_TYPE_TO_STRING[t] IN
       tlv' = [op |-> "idToName", id |-> t, name |-> n,
               rid |-> TLV_TYPE_FROM_STRING[n], rname |-> n]
    /\ UNCHANGED <<ds, given, enc, dec, cops, svars, dvars, call, framing>>

\* a lookup in TLV_TYPE_FROM_STRING, and of its result in TLV_TYPE_TO_STRING
IdOfName(n) ==
    /\ cops = 0
    /\ given = <<>>
    /\ LET t == TLV_TYPE_FROM_STRING[n] IN
       tlv' = [op |-> "nameToId", id |-> t, name |-> n,
               rid |-> t, rname |-> TLV_TYPE_TO_STRING[t]]
    /\ UNCHANGED <<ds, given, enc, dec, cops, svars, dvars, call, framing>>

(* The dispatcher methods.  A method is written as its next instruction
   after the history h of its calls so far, one entry per _command call
   that has returned (the response, a sequence of lines) and per sleep (an
   empty entry):
     [do |-> "execute", command |-> fragments]   _execute_and_check(command)
     [do |-> "command", line |-> text, data |-> d]   _command(line)
     [do |-> "sleep", seconds |-> t]             _sleep(t)
     [do |-> "return", value |-> v]              the method returns v
     [do |-> "raise", error |-> e]               the method raises e
   A method is asked for its next instruction only while its call is
   running: a response _check_response rejects is the last entry of the
   history of a call that has raised.  A line is a sequence of pieces of
   text, single characters where a method looks inside it.  An optional
   argument is [none |-> TRUE] when it is not given. *)

JOINER_TYPE_MESHCOP == 0
JOINER_TYPE_CCM_AE == 1
JOINER_TYPE_CCM_NMKP == 2
JOINER_TYPE_TO_STRING ==
    (JOINER_TYPE_MESHCOP :> "meshcop") @@ (JOINER_TYPE_CCM_AE :> "ae")
        @@ (JOINER_TYPE_CCM_NMKP :> "nmkp")

\* the `step` of setCOM_TOK
TokenStep == 40

\* int(text): an optional sign and decimal digits
ParseInt(l) ==
    LET digits == IF l # <<>> /\ l[1] = "-" THEN Tail(l) ELSE l
        RECURSIVE Value(_)
        Value(d) == IF d = <<>> THEN 0
                    ELSE 10 * Value(Front(d)) + HexValue(Last(d))
    IN  IF digits # <<>> /\ \A i \in DOMAIN digits : HexValue(digits[i]) \in 0..9
        THEN Ok(IF digits = l THEN Value(digits) ELSE 0 - Value(digits))
        ELSE Raise("ValueError")

\* text.startswith(prefix)
StartsWith(l, prefix) ==
    Len(l) >= Len(prefix) /\ SubSeq(l, 1, Len(prefix)) = prefix

\* the texts json.loads is given by MGMT_ED_SCAN, and what it makes of them
ReportTexts ==
    (<< <<"{\"ChannelMask\": [{\"Masks\": \"001f\", \"Page\": 0}, ",
          "{\"Masks\": \"ff\", \"Page\": 2}], \"EnergyList\": \"0aab\"}">> >>
        :> [ChannelMask |->
                [list |-> <<[Masks |-> [str |-> <<"0", "0", "1", "f">>],
                             Page |-> 0],
                            [Masks |-> [str |-> <<"f", "f">>], Page |-> 2]>>],
            EnergyList |-> [str |-> <<"0", "a", "a", "b">>]])
    @@ (<< <<"{\"EnergyList\": \"0aab\"}">> >>
        :> [EnergyList |-> [str |-> <<"0", "a", "a", "b">>]])

\* isActive
isActive(h) ==
    IF h = <<>> THEN [do |-> "execute", command |-> <<"active">>]
    ELSE IF StartsWith(h[1][1], <<"t", "r", "u", "e">>)
    THEN [do |-> "return", value |-> TRUE]
    ELSE IF StartsWith(h[1][1], <<"f", "a", "l", "s", "e">>)
    THEN [do |-> "return", value |-> FALSE]
    ELSE [do |-> "raise", error |-> "Error"]

\* getSessionId
getSessionId(h) ==
    IF h = <<>> THEN [do |-> "execute", command |-> <<"sessionid">>]
    ELSE IF ParseInt(h[1][1]).err = "none"
    THEN [do |-> "return", value |-> ParseInt(h[1][1]).v]
    ELSE [do |-> "raise", error |-> "Error"]

\* enableJoiner(joinerType, eui64, password) and, with enable = FALSE and
\* no password, disableJoiner(joinerType, eui64)
enableJoiner(a, enable, h) ==
    LET verb == IF enable THEN "enable" ELSE "disable"
        one == DOMAIN a.eui64 = {"int"} /\ a.eui64.int # 0
        pw == enable /\ DOMAIN a.password = {"str"} /\ a.password.str # ""
    IN  IF h # <<>> THEN [do |-> "return", value |-> "None"]
        ELSE [do |-> "execute",
              command |->
                  <<"joiner ", IF one THEN verb ELSE verb \o "all", " ",
                    JOINER_TYPE_TO_STRING[a.joinerType]>>
                  \o (IF one THEN <<" ", ToString(a.eui64.int)>> ELSE <<>>)
                  \o (IF pw THEN <<" ", a.password.str>> ELSE <<>>)]

\* a query that asks for the conflict at once and sleeps afterwards
PanIdQueryNoWait(a, h) ==
    IF Len(h) = 0
    THEN [do |-> "execute",
          command |-> <<"panid query ", a.channelMask, " ", ToString(a.panId),
                        " ", a.dstAddr>>]
    ELSE IF Len(h) = 1
    THEN [do |-> "execute", command |-> <<"panid conflict ", ToString(a.panId)>>]
    ELSE IF Len(h) = 2 THEN [do |-> "sleep", seconds |-> a.timeout]
    ELSE [do |-> "return", value |-> (ParseInt(h[2][1]).v # 0)]

\* MGMT_PANID_QUERY(channelMask, panId, dstAddr, timeout)
MGMT_PANID_QUERY(a, h) ==
    IF Len(h) = 0
    THEN [do |-> "execute",
          command |-> <<"panid query ", a.channelMask, " ", ToString(a.panId),
                        " ", a.dstAddr>>]
    ELSE IF Len(h) = 1 THEN [do |-> "sleep", seconds |-> a.timeout]
    ELSE IF Len(h) = 2
    THEN [do |-> "execute", command |-> <<"panid conflict ", ToString(a.panId)>>]
    ELSE IF ParseInt(h[3][1]).err # "none"
    THEN [do |-> "raise", error |-> "ValueError"]
    ELSE [do |-> "return", value |-> (ParseInt(h[3][1]).v # 0)]

\* a scan that takes a `null` report for an empty one
EdScanNullIsEmpty(a, h) ==
    IF Len(h) = 0
    THEN [do |-> "execute",
          command |-> <<"energy scan ", a.channelMask, " ", ToString(a.count),
                        " ", ToString(a.period), " ",
                        ToString(a.scanDuration), " ", a.dstAddr>>]
    ELSE IF Len(h) = 1 THEN [do |-> "sleep", seconds |-> a.timeout]
    ELSE IF Len(h) = 2
    THEN [do |-> "execute", command |-> <<"energy report ", a.dstAddr>>]
    ELSE [do |-> "return",
          value |-> [channelMask |-> [list |-> <<>>], energyList |-> [bytes |-> <<>>]]]

\* MGMT_ED_SCAN(channelMask, count, period, scanDuration, dstAddr, timeout)
MGMT_ED_SCAN(a, h) ==
    IF Len(h) = 0
    THEN [do |-> "execute",
          command |-> <<"energy scan ", a.channelMask, " ", ToString(a.count),
                        " ", ToString(a.period), " ",
                        ToString(a.scanDuration), " ", a.dstAddr>>]
    ELSE IF Len(h) = 1 THEN [do |-> "sleep", seconds |-> a.timeout]
    ELSE IF Len(h) = 2
    THEN [do |-> "execute", command |-> <<"energy report ", a.dstAddr>>]
    ELSE IF Concat(h[3][1]) = "null" THEN [do |-> "raise", error |-> "Error"]
    ELSE IF Front(h[3]) \notin DOMAIN ReportTexts
    THEN [do |-> "raise", error |-> "Error"]
    ELSE LET j == ReportTexts[Front(h[3])] IN
         IF ~({"ChannelMask", "EnergyList"} \subseteq DOMAIN j)
            \/ ChannelMaskFromJsonObj(j.ChannelMask).err # "none"
            \/ HexToBytes(j.EnergyList).err # "none"
         THEN [do |-> "raise", error |-> "Error"]
         ELSE [do |-> "return",
               value |-> [channelMask |-> ChannelMaskFromJsonObj(j.ChannelMask).v,
                          energyList |-> HexToBytes(j.EnergyList).v]]

\* 'echo "{}" | base64 -d - > "{}"'.format(b64, path), b64 the base64 text
\* of size bytes: four characters for every three bytes begun
Base64Line(size, path) ==
    [do |-> "command",
     line |-> "echo \"" \o Pad(4 * ((size + 2) \div 3))
                  \o "\" | base64 -d - > \"" \o path \o "\"",
     data |-> <<>>]

\* chunks that all start at the beginning of the token
TokenChunkFromStart(token, i) ==
    [bytes |-> SubSeq(token, 1, Min(TokenStep, Len(token)))]
\* signedCOM_TOK[i: i + step]
TokenChunk(token, i) ==
    [bytes |-> SubSeq(token, i + 1, Min(i + TokenStep, Len(token)))]

\* setCOM_TOK(signedCOM_TOK, verifyCert); a.uuids are the two values of
\* uuid.uuid4(), a.verifyCert the length of the certificate
setCOM_TOK(a, h) ==
    LET chunks == (Len(a.signedCOM_TOK) + TokenStep - 1) \div TokenStep
        path_token == "/tmp/commissioner.token." \o a.uuids[1]
        path_cert == "/tmp/commissioner.token_cert." \o a.uuids[2]
    IN  IF Len(h) < chunks
        THEN LET data == BytesToHex(TokenChunk(a.signedCOM_TOK,
                                               TokenStep * Len(h))).v IN
             [do |-> "command",
              line |-> "echo " \o Concat(data.str) \o " >> \""
                           \o path_token \o "\"",
              data |-> data]
        ELSE IF Len(h) = chunks THEN Base64Line(a.verifyCert, path_cert)
        ELSE IF Len(h) = chunks + 1
        THEN [do |-> "execute",
              command |-> <<"token set ", path_token, " ", path_cert>>]
        ELSE [do |-> "return", value |-> "None"]

\* getCOM_TOK
getCOM_TOK(h) ==
    IF h = <<>> THEN [do |-> "execute", command |-> <<"token print">>]
    ELSE IF HexToBytes([str |-> h[1][1]]).err # "none"
    THEN [do |-> "raise", error |-> HexToBytes([str |-> h[1][1]]).err]
    ELSE [do |-> "return", value |-> HexToBytes([str |-> h[1][1]]).v]

\* credential files sent whatever the mode
CredentialsSentAnyMode(a) == SelectSeq(<<1, 2, 3>>, LAMBDA i : a.files[i] > 0)

\* the credential files _write_config sends: in CCM mode, those whose name
\* is set (1 the private key, 2 the certificate, 3 the trust anchor)
CredentialsSent(a) ==
    IF a.isCcmMode
    THEN SelectSeq(<<1, 2, 3>>, LAMBDA i : a.files[i] > 0)
    ELSE <<>>

\* _write_config(config_path, config) with its calls of _send_file; a.files
\* are the lengths of the private key, certificate and trust anchor files
\* (0 for a name that is not set), a.uuids the values of uuid.uuid4()
WriteConfig(a, h) ==
    LET names == <<"private_key", "cert", "trush_anchor">>
        sent == CredentialsSent(a)
        path(i) == "/tmp/commissioner." \o names[i] \o "." \o a.uuids[i]
        keys == <<"PrivateKeyFile", "CertificateFile", "TrustAnchorFile">>
        entry(i) == ", \"" \o keys[i] \o "\": \"" \o path(i) \o "\""
    IN  IF Len(h) < Len(sent)
        THEN Base64Line(a.files[sent[Len(h) + 1]], path(sent[Len(h) + 1]))
        ELSE IF Len(h) = Len(sent)
        THEN [do |-> "command",
              line |-> "echo '{\"EnableCcm\": "
                           \o (IF a.isCcmMode THEN "true" ELSE "false")
                           \o ", \"Id\": \"thread-comm\", \"PSKc\": \""
                           \o "00112233445566778899aabbccddeeff"
                           \o "\", \"DomainName\": \"Thread\""
                           \o ", \"EnableDtlsDebugLogging\": true"
                           \o ", \"LogLevel\": \"debug\""
                           \o ", \"KeepAliveInterval\": 40"
                           \o ", \"MaxConnectionNum\": 100"
                           \o ", \"LogFile\": \"/tmp/commissioner.log\""
                           \o Concat([k \in DOMAIN sent |-> entry(sent[k])])
                           \o "}' >> '" \o a.config_path \o "'",
              data |-> [credentials |->
                            [k \in DOMAIN sent |->
                                [key |-> keys[sent[k]], path |-> path(sent[k])]]]]
        ELSE [do |-> "return", value |-> "None"]

\* OTCommissioner.__init__ from _write_config on: the init command, the
\* probe of its exit status, the test of the probe's first line
Construct(a, h) ==
    LET n == Len(CredentialsSent(a)) + 1 IN
    IF Len(h) < n THEN WriteConfig(a, h)
    ELSE IF Len(h) = n
    THEN [do |-> "command",
          line |-> COMMISSIONER_CTL \o " init \"" \o a.config_path \o "\"",
          data |-> <<>>]
    ELSE IF Len(h) = n + 1
    THEN [do |-> "command", line |-> "echo $?", data |-> <<>>]
    ELSE IF h[n + 2] = <<>> THEN [do |-> "raise", error |-> "IndexError"]
    ELSE IF h[n + 2][1] # <<"0">> THEN [do |-> "raise", error |-> "Error"]
    ELSE [do |-> "return", value |-> "None"]

\* the next instruction of a call
Method(name, a, h) ==
    CASE name = "isActive" -> isActive(h)
      [] name = "getSessionId" -> getSessionId(h)
      [] name = "enableJoiner" -> enableJoiner(a, TRUE, h)
      [] name = "disableJoiner" -> enableJoiner(a, FALSE, h)
      [] name = "MGMT_PANID_QUERY" -> MGMT_PANID_QUERY(a, h)
      [] name = "MGMT_ED_SCAN" -> MGMT_ED_SCAN(a, h)
      [] name = "setCOM_TOK" -> setCOM_TOK(a, h)
      [] name = "getCOM_TOK" -> getCOM_TOK(h)
      [] name = "_write_config" -> WriteConfig(a, h)
      [] name = "__init__" -> Construct(a, h)
      [] name = "_execute_and_check" ->
             IF h = <<>> THEN [do |-> "execute", command |-> a.command]
             ELSE [do |-> "return", value |-> h[1]]

(* The calls a caller makes and what the far end answers *)

Uuids == <<"123e4567-e89b-42d3-a456-426614174000",
           "123e4567-e89b-42d3-a456-426614174001",
           "123e4567-e89b-42d3-a456-426614174002">>

\* a token of n bytes
Token(n) == [i \in 1..n |-> (7 * i) % 256]

\* command texts, character by character: a letter, a space, a double
\* quote, a backslash, a dollar sign with a parameter name
CommandTexts ==
    UNION {[1..n -> {"a", " ", Q, BS, DOLLAR}] : n \in 1..MaxCommand}

MethodCalls ==
    {[name |-> n, args |-> <<>>] : n \in {"isActive", "getSessionId", "getCOM_TOK"}}
    \cup {[name |-> n,
           args |-> [joinerType |-> t, eui64 |-> e, password |-> p]] :
              n \in {"enableJoiner", "disableJoiner"},
              t \in DOMAIN JOINER_TYPE_TO_STRING,
              e \in {[none |-> TRUE], [int |-> 0], [int |-> 1],
                     [int |-> 1122334455]},
              p \in {[none |-> TRUE], [str |-> ""], [str |-> "J01NME"]}}
    \cup {[name |-> "MGMT_PANID_QUERY",
           args |-> [channelMask |-> "0x07fff800", panId |-> p,
                     dstAddr |-> "ff02::2", timeout |-> t]] :
              p \in {0, 64206}, t \in {0, 5}}
    \cup {[name |-> "MGMT_ED_SCAN",
           args |-> [channelMask |-> "0x07fff800", count |-> 2, period |-> 200,
                     scanDuration |-> 32, dstAddr |-> d, timeout |-> t]] :
              d \in {"ff02::2", "fd00::1"}, t \in {0, 5}}
    \cup {[name |-> "setCOM_TOK",
           args |-> [signedCOM_TOK |-> Token(n), verifyCert |-> c,
                     uuids |-> Uuids]] :
              n \in {0, 1, TokenStep, TokenStep + 1, 2 * TokenStep + 1},
              c \in {600, 3000}}
    \cup {[name |-> n,
           args |-> [isCcmMode |-> m, files |-> <<k, c, t>>, uuids |-> Uuids,
                     config_path |-> "/tmp/commissioner." \o Uuids[3] \o ".json"]] :
              n \in {"_write_config", "__init__"},
              m \in BOOLEAN, k \in {0, 300, 3000}, c \in {0, 1200},
              t \in {0, 900}}
    \cup {[name |-> "_execute_and_check", args |-> [command |-> c]] :
              c \in CommandTexts}

\* the responses _command returns for the probe `echo $?`
ProbeResponses == { <<>>, << <<"0">> >>, << <<"1">> >>, << <<"1", "2", "7">> >> }

\* the responses _command returns for a commissioner_ctl.py command
CtlResponses ==
    { <<>>,
      << <<"[", "d", "o", "n", "e", "]">> >>,
      << <<"t", "r", "u", "e">>, <<"[", "d", "o", "n", "e", "]">> >>,
      << <<"f", "a", "l", "s", "e">>, <<"[", "d", "o", "n", "e", "]">> >>,
      << <<"t", "r", "u", "e", "x">>, <<"[", "d", "o", "n", "e", "]">> >>,
      << <<"5", "7">>, <<"[", "d", "o", "n", "e", "]">> >>,
      << <<"0">>, <<"[", "d", "o", "n", "e", "]">> >>,
      << <<"-", "1">>, <<"[", "d", "o", "n", "e", "]">> >>,
      << <<"0", "a", "A", "B">>, <<"[", "d", "o", "n", "e", "]">> >>,
      << <<"n", "u", "l", "l">>, <<"[", "d", "o", "n", "e", "]">> >>,
      << <<"t", "r", "u", "e">> >>,
      << <<"5", "7">>, <<"f", "a", "i", "l", "e", "d">> >> }
    \cup {Append(t, <<"[", "d", "o", "n", "e", "]">>) : t \in DOMAIN ReportTexts}

\* how a _command call can end: it returns a response, or it raises (no
\* echo, no prompt, a dead line)
Outcomes(ins) ==
    {[raised |-> TRUE, response |-> <<>>]}
    \cup {[raised |-> FALSE, response |-> r] :
             r \in IF ins.do = "execute" THEN CtlResponses
                   ELSE IF ins.line = "echo $?" THEN ProbeResponses
                   ELSE {<<>>}}

OpInit == call = [name |-> "none"]

\* a caller calls a method
Call(c) ==
    /\ call.name = "none"
    /\ call' = [name |-> c.name, args |-> c.args, hist |-> <<>>, events |-> <<>>,
                state |-> "running", value |-> "None", error |-> "none"]
    /\ UNCHANGED <<svars, dvars, cvars, framing>>

\* the lines of a response as _check_response sees them
AsLines(r) == [i \in DOMAIN r |-> <<Piece(Concat(r[i]), 0)>>]

\* the next instruction of the call in progress is carried out; o is how
\* the _command call ends if the instruction makes one
MethodStep(o) ==
    /\ call.name # "none"
    /\ call.state = "running"
    /\ LET ins == Method(call.name, call.args, call.hist)
           line == IF ins.do = "execute" THEN ExecuteLine(ins.command)
                   ELSE ins.line
       IN
       CASE ins.do = "return" ->
                call' = [call EXCEPT !.state = "returned", !.value = ins.value]
         [] ins.do = "raise" ->
                call' = [call EXCEPT !.state = "raised", !.error = ins.error]
         [] ins.do = "sleep" ->
                call' = [call EXCEPT !.hist = Append(@, <<>>),
                                     !.events = Append(@, ins)]
         [] ins.do \in {"execute", "command"} ->
                /\ o \in Outcomes(ins)
                /\ IF CommandTooLong(line)
                   THEN call' = [call EXCEPT !.state = "raised",
                                             !.error = "TooLong"]
                   ELSE IF o.raised
                   THEN call' = [call EXCEPT !.state = "raised",
                                             !.error = "Exception",
                                             !.events = Append(@, ins)]
                   ELSE IF ins.do = "execute"
                           /\ CheckResponse(AsLines(o.response)).kind # "Ok"
                   THEN call' = [call EXCEPT
                                    !.state = "raised",
                                    !.error = CheckResponse(AsLines(o.response)).kind,
                                    !.hist = Append(@, o.response),
                                    !.events = Append(@, ins)]
                   ELSE call' = [call EXCEPT !.hist = Append(@, o.response),
                                             !.events = Append(@, ins)]
    /\ UNCHANGED <<svars, dvars, cvars, framing>>

AllOutcomes ==
    {[raised |-> TRUE, response |-> <<>>]}
    \cup {[raised |-> FALSE, response |-> r] :
             r \in CtlResponses \cup ProbeResponses}

MethodNext ==
    \/ \E c \in MethodCalls : Call(c)
    \/ \E o \in AllOutcomes : MethodStep(o)

-----------------------------------------------------------------------------
(* The framing of lines: _read_line over a stream that arrives in parts *)

\* the bytes of a stream: a letter (also a final byte of a control
\* sequence), the two bytes of a line terminator, ESC and `[`
StreamBytes == {"a", CR, LF, ESC, "["}
Streams == UNION {[1..n -> {Piece(b, 0) : b \in StreamBytes}] : n \in 0..MaxStream}

FramingInit ==
    framing = [on |-> FALSE, stream |-> <<>>, chunks |-> <<>>, returned |-> <<>>]

\* after a write, the far end emits a stream
Emit(s) ==
    /\ ~framing.on
    /\ pc = "idle"
    /\ lines = <<>>
    /\ wire' = wire \o s
    /\ framing' = [on |-> TRUE, stream |-> pipe \o wire \o s,
                   chunks |-> <<>>, returned |-> <<>>]
    /\ UNCHANGED <<pc, lines, pipe, cmd, timeout, response, echo, result,
                   calls, lastSent, io, dropped, session, calledClosed, lvars,
                   dvars, cvars, call>>

\* a call of _read_line
FrameRead ==
    /\ framing.on
    /\ LET r == ReadLine(lines, pipe) IN
       /\ lines' = r.lines
       /\ pipe' = r.pipe
       /\ io' = IF r.read THEN {"read"} ELSE {}
       /\ framing' = [framing EXCEPT
                          !.chunks = IF r.read /\ ReadData(pipe) # <<>>
                                     THEN Append(@, ReadData(pipe)) ELSE @,
                          !.returned = IF r.line # <<>>
                                       THEN Append(@, r.line[1]) ELSE @]
    /\ UNCHANGED <<pc, wire, cmd, timeout, response, echo, result, calls,
                   lastSent, dropped, session, calledClosed, lvars, dvars,
                   cvars, call>>

FramingNext ==
    \/ \E s \in Streams : Emit(s)
    \/ Deliver
    \/ FrameRead

CodecNext ==
    \/ \E d \in Datasets : Build(d)
    \/ MGMT_ACTIVE_SET
    \/ MGMT_PENDING_SET
    \/ MGMT_COMMISSIONER_SET
    \/ MGMT_BBR_SET
    \/ DecodeEncoded
    \/ \E j \in ResponseJsons : MGMT_ACTIVE_GET(j)
    \/ \E j \in ResponseJsons : MGMT_PENDING_GET(j)
    \/ \E j \in ResponseJsons : MGMT_COMMISSIONER_GET(j)
    \/ \E j \in ResponseJsons : MGMT_BBR_GET(j)
    \/ \E t \in Timestamps : TimestampRoundTrip(t)
    \/ \E j \in JsonTimestamps : JsonTimestampRoundTrip(j)
    \/ \E t \in DOMAIN TLV_TYPE_TO_STRING : NameOfId(t)
    \/ \E n \in DOMAIN TLV_TYPE_FROM_STRING : IdOfName(n)
    \/ \E b \in ByteStrings : HexRoundTrip(b)


-----------------------------------------------------------------------------
(* Specifications *)

Init == SessionInit /\ DaemonInit /\ CodecInit /\ OpInit /\ FramingInit

\* the session of commissioner_impl.py over its line
Next ==
    \/ \E c \in ShortCommands, o \in OutSeqs, t \in Trailers : Dispatch(c, o, t)
    \/ \E c \in LongCommands, o \in OutSeqs, t \in Trailers : Dispatch(c, o, t)
    \/ ExpectRead
    \/ ExpectSleep
    \/ CommandRead
    \/ CommandSleep
    \/ \E o \in OutSeqs, t \in Trailers : Exit(o, t)
    \/ Deliver

\* the daemon of commissionerd.py and its CLI process
DaemonNext ==
    \/ Accept
    \/ Hangup
    \/ \E m \in Messages : Receive(m)
    \/ InitPrompt
    \/ InitEOF
    \/ InitTimeout
    \/ ExecPrompt
    \/ ExecTimeout
    \/ GracePrompt
    \/ GraceTimeout
    \/ ExecEOF
    \/ ExitEOF
    \/ ExitTimeout
    \/ CliOutput
    \/ CliPrompt
    \/ CliExit
    \/ CliDie

Spec == Init /\ [][Next]_vars

DaemonSpec == Init /\ [][DaemonNext]_vars

\* the dataset codec and the operations that use it
CodecSpec == Init /\ [][CodecNext]_vars

\* _read_line over every stream and every way it arrives
FramingSpec == Init /\ [][FramingNext]_vars

\* the dispatcher methods, one _command call at a time
MethodSpec == Init /\ [][MethodNext]_vars

\* the lifetime of a session, from the call of the constructor
LifeNext ==
    \/ \E t \in LifeTrailers : ConstructStart(t)
    \/ \E o \in InitOuts, t \in LifeTrailers : ConstructInit(o, t)
    \/ \E o \in ProbeOuts, t \in LifeTrailers : ConstructProbe(o, t)
    \/ ConstructEnd
    \/ \E o \in FlowOuts, t \in LifeTrailers : FlowStep(o, t)
    \/ \E t \in LifeTrailers : Exit(<<>>, t)
    \/ ExpectRead
    \/ ExpectSleep
    \/ CommandRead
    \/ CommandSleep
    \/ Deliver
    \/ LineBreaks

LifeStart == LifeInit /\ DaemonInit /\ CodecInit /\ OpInit /\ FramingInit
LifeSpec == LifeStart /\ [][LifeNext]_vars

\* the constructor and the loops of _expect and _command keep running, and
\* the line delivers what the shell has emitted
LifeFairSpec ==
    LifeSpec /\ WF_vars(ExpectRead) /\ WF_vars(ExpectSleep)
             /\ WF_vars(CommandRead) /\ WF_vars(CommandSleep)
             /\ WF_vars(Deliver)
             /\ WF_vars(\E o \in InitOuts, t \in LifeTrailers :
                            ConstructInit(o, t))
             /\ WF_vars(\E o \in ProbeOuts, t \in LifeTrailers :
                            ConstructProbe(o, t))
             /\ WF_vars(ConstructEnd)

\* the loops of _expect and _command keep running; the line may stay silent
FairSpec ==
    Spec /\ WF_vars(ExpectRead) /\ WF_vars(ExpectSleep)
         /\ WF_vars(CommandRead) /\ WF_vars(CommandSleep)

-----------------------------------------------------------------------------
(* Claims about the session *)

\* a dispatch whose _command returned a response to _check_response
Checked == pc = "idle" /\ result.kind \in {"Ok", "Error", "IndexError"}
Receiving == pc \in {"accumulate", "accumulate_sleep"}

\* C1: a dispatch succeeds if and only if the last line of the response is
\* [done]; in every other case it raises a commissioner Error that carries
\* all the response lines in order.
C1_SuccessIffLastLineDone ==
    Checked =>
        /\ result.kind = "Ok" <=>
               (response # <<>> /\ Text(Last(response)) = DONE)
        /\ result.kind # "Ok" =>
               (result.kind = "Error" /\ result.payload = Texts(response))

\* C2 as claimed: the result of a successful dispatch is the response
\* without its last element, the [done] marker.
C2_ResultDropsMarker ==
    (Checked /\ result.kind = "Ok") => result.payload = Texts(Front(response))

\* C2 as amended: the result of a successful dispatch is the whole response,
\* the [done] marker included as its last element; the lines that precede
\* the marker are the result without its last element.
C2_ResultKeepsMarker ==
    (Checked /\ result.kind = "Ok") =>
        /\ result.payload = Texts(response)
        /\ Last(result.payload) = DONE
        /\ Front(result.payload) = Texts(Front(response))

C2_Witness ==
    Checked /\ result.kind = "Ok" /\ result.payload = <<"foo", DONE>>

\* C3: a _command call whose line length plus the prompt length is at least
\* TTY_COLS fails without a transport write or read and leaves _lines as it
\* was; a shorter line is written.
C3_LengthGuard ==
    [][calls' = calls + 1 =>
          IF Len(cmd') + Len(COMMISSIONER_PROMPT) >= TTY_COLS
          THEN /\ result'.kind = "TooLong"
               /\ pc' = "idle"
               /\ io' = {}
               /\ lines' = lines /\ pipe' = pipe /\ wire' = wire
               /\ lastSent' = lastSent
          ELSE /\ "write" \in io'
               /\ lastSent' = cmd'
               /\ pc' = "expect"]_vars

C3_Witness ==
    /\ result.kind = "TooLong"
    /\ calls = 2
    /\ io = {}
    /\ lastSent # cmd
    /\ Len(lines) = 1 /\ lines[1] # <<>>

\* C4: with a line that delivers in order and a CLI that prints neither the
\* next command line nor a line that begins with the prompt, the echo a
\* dispatch accepts and every line of the response it collects were emitted
\* for that dispatch's own write; what an earlier dispatch left in _lines
\* or unread at the handler is not among them.
C4_EchoGuard ==
    (Receiving \/ Checked) =>
        /\ Tags(echo) = {calls}
        /\ \A i \in DOMAIN response : Tags(response[i]) = {calls}

C4_Witness ==
    /\ Checked /\ result.kind = "Ok"
    /\ calls = 2
    /\ dropped \cap {"buffered", "unread"} # {}

\* C5: the echo wait of _expect always ends.
C5_ExpectTerminates ==
    [](pc = "expect" => <>(pc \notin {"expect", "expect_sleep"}))

\* C6: once the echo has been seen, _command does not collect for ever: the
\* dispatch ends.
C6_CommandTimesOut == [](Receiving => <>(pc = "idle"))

\* the whole reaction of the shell to the current command has arrived, and
\* it ends with the prompt, with no line terminator after it
PromptArrivedUnterminated ==
    /\ Receiving
    /\ wire = <<>>
    /\ LET arrived == (IF lines = <<>> THEN <<>> ELSE Last(lines)) \o pipe IN
       /\ arrived # <<>>
       /\ Last(arrived) = Piece(PromptText, calls)
       /\ \A i \in DOMAIN arrived : arrived[i].t # CRLF

\* C7: when the echo, the output lines and then the prompt, as a trailing
\* text with no line terminator, have arrived, _command returns.
C7_ReturnsAtPrompt == [](PromptArrivedUnterminated => <>(pc = "idle"))

\* C10: once __exit__ has run, a further dispatch fails with a
\* session-closed error and writes nothing.
C10_ClosedSessionRejects ==
    session = "closed" =>
        /\ pc = "idle"
        /\ lastSent = LogoutLine
        /\ calledClosed => result.kind = "SessionClosed"

-----------------------------------------------------------------------------
(* Claims about the lifetime of a session *)

\* C11: once the construction of a session has begun, whatever ends the
\* session (here over a line that still takes writes), the handler is
\* logged out.
C11_HandlerReleased ==
    (~broken /\ (stage = "failed" \/ session = "closed")) => logouts >= 1

\* C12: __exit__ starts with the exit command, after a body that ended
\* normally or by an exception at any step; the logout is attempted exactly
\* once, after the exit command, also when the exit command raised.
C12_TeardownReleases ==
    [][/\ (session = "open" /\ session' # "open") =>
              /\ cmd' = ExitLine
              /\ calls' = calls + 1
              /\ ~broken => (lastSent' = ExitLine /\ "write" \in io')
       /\ (logouts' # logouts) =>
              /\ logouts = 0 /\ logouts' = 1
              /\ session' = "closed"
              /\ cmd' = ExitLine
       /\ (session' = "closed") => logouts' = 1
       /\ (session = "closing" /\ session' = "closing") =>
              lastSent' = ExitLine]_vars

C12_Witness ==
    /\ session = "closed"
    /\ logouts = 1
    /\ cmd = ExitLine
    /\ result.kind = "TransportError"
    /\ flow \in 1..(Len(ExampleFlow) - 1)

\* C13: when the prompt does not appear after the init command, the
\* construction does not block for ever: it leaves the init command.
C13_ConstructionEnds ==
    [](stage = "init" => <>(stage \in {"probe", "failed"}))

-----------------------------------------------------------------------------
(* Claims about the daemon *)

\* the current request has been dealt with
Handled == dpc \in {"recv", "accept", "crashed"}

\* C8: a command that times out gets SIGINT exactly once and is then answered
\* either with success and a result that starts with `Timed out executing`
\* or with failure, and with nothing else; a command that does not time out
\* gets no SIGINT.
C8_TimeoutAbort ==
    /\ sigints = IF timedOut THEN 1 ELSE 0
    /\ (timedOut /\ Handled) =>
           /\ dpc # "crashed"
           /\ reply.to = reqno
           /\ \/ reply.status = "success" /\ reply.kind = "Timed out executing"
              \/ reply.status = "failure"

\* C9: after a command has timed out the CLI process stays registered, and
\* the result of a later execute request is the output of that request's
\* own command, ended by that command's own prompt.
C9_UsableAfterTimeout ==
    /\ (timedOut /\ Handled) => process
    /\ (everTimedOut /\ reply.status = "success"
            /\ reply.kind \in {"output", "Timed out executing"}) =>
           /\ reply.prompt = reply.to
           /\ \A i \in DOMAIN reply.before : reply.before[i].r = reply.to

\* the request is one of those commissioner_ctl.py sends
WellFormed(m) == IsInit(m) \/ IsExit(m) \/ IsExecute(m)

\* C14: every request is answered with exactly one reply, of status success
\* or failure, and the daemon goes on serving.
C14_EveryRequestAnswered ==
    (reqno > 0 /\ WellFormed(msg)) =>
        /\ dpc # "crashed"
        /\ answered \in {reqno - 1, reqno}
        /\ Handled =>
               /\ answered = reqno
               /\ reply.to = reqno
               /\ reply.status \in {"success", "failure"}

\* C15: at most one command is in flight to the CLI process at any time, and
\* the reply to a request is sent before the next request is received.
C15_OneCommandInFlight ==
    /\ Len(cliQueue) <= 1
    /\ dpc = "recv" => answered = reqno


(* Claims about the dataset codec *)

C17_CodecPure ==
    enc.op \in {"active", "pending", "commissioner"} => ds = given

\* C18: every key of a dataset returned by a get operation is a registered
\* TLV type id, and a response JSON with a key that is not a registered TLV
\* name makes the call fail with a commissioner Error and return no dataset.
C18_DecodedKeysRegistered ==
    dec.op \in {"active", "pending", "commissioner", "bbr"} =>
        /\ DOMAIN dec.ds \subseteq DOMAIN TLV_TYPE_TO_STRING
        /\ ~(DOMAIN dec.input \subseteq DOMAIN TLV_TYPE_FROM_STRING) =>
               (dec.err = "Error" /\ dec.ds = <<>>)

\* a get operation has failed on a response that carries an unregistered
\* name next to registered ones
C18_Witness ==
    /\ dec.op = "pending"
    /\ dec.err = "Error"
    /\ dec.ds = <<>>
    /\ {"Bogus", "PanId", "ActiveTimestamp"} \subseteq DOMAIN dec.input

\* C19: a set operation given a dataset with a key that is not a registered
\* TLV type id fails with a commissioner Error, hands no command to the
\* transport and leaves the caller's dataset unchanged.
C19_UnknownKeyRejected ==
    (enc.op # "none" /\ cops = 1 /\ UnknownTlv \in DOMAIN given) =>
        /\ enc.err = "Error"
        /\ enc.command = <<>>
        /\ ds = given

\* C20: TLV_TYPE_TO_STRING and TLV_TYPE_FROM_STRING are mutually inverse
\* bijections over the 23 registered TLVs: each has 23 keys, looking a name's
\* id up gives the name back and looking an id's name up gives the id back.
C20_TablesInverse ==
    /\ Cardinality(DOMAIN TLV_TYPE_TO_STRING) = 23
    /\ Cardinality(DOMAIN TLV_TYPE_FROM_STRING) = 23
    /\ \A t \in DOMAIN TLV_TYPE_TO_STRING :
           /\ TLV_TYPE_TO_STRING[t] \in DOMAIN TLV_TYPE_FROM_STRING
           /\ TLV_TYPE_FROM_STRING[TLV_TYPE_TO_STRING[t]] = t
    /\ \A n \in DOMAIN TLV_TYPE_FROM_STRING :
           /\ TLV_TYPE_FROM_STRING[n] \in DOMAIN TLV_TYPE_TO_STRING
           /\ TLV_TYPE_TO_STRING[TLV_TYPE_FROM_STRING[n]] = n
    /\ tlv.op # "none" => (tlv.rid = tlv.id /\ tlv.rname = tlv.name)

\* the id of PSKc has been looked up and its name looked up again
C20_Witness ==
    tlv.op = "nameToId" /\ tlv.name = "PSKc" /\ tlv.id = TLV_TYPE_PSKC


\* C21: for every byte string b, the empty one included, _bytes_to_hex(b) is a
\* string of exactly 2 * len(b) lower-case hexadecimal digits, and
\* _hex_to_bytes of it is b.
C21_HexRoundTrip ==
    enc.op = "hex" =>
        /\ enc.err = "none"
        /\ Len(enc.json.str) = 2 * Len(enc.ds.bytes)
        /\ \A i \in DOMAIN enc.json.str :
               \E k \in DOMAIN HexDigits : enc.json.str[i] = HexDigits[k][1]
        /\ dec.err = "none"
        /\ dec.ds = enc.ds

\* a string of two bytes whose digits differ, one of them a letter, has made
\* the round trip
C21_Witness ==
    /\ enc.op = "hex"
    /\ enc.ds = [bytes |-> <<10, 171>>]
    /\ enc.json = [str |-> <<"0", "a", "a", "b">>]
    /\ dec.ds = [bytes |-> <<10, 171>>]

C23_AllJoinersIffNoEui64 ==
    (call.name \in {"enableJoiner", "disableJoiner"} /\ call.events # <<>>) =>
        LET a == call.args
            verb == IF call.name = "enableJoiner" THEN "enable" ELSE "disable"
            named == DOMAIN a.eui64 = {"int"}
            pw == call.name = "enableJoiner" /\ DOMAIN a.password = {"str"}
                      /\ a.password.str # ""
        IN  call.events[1].command =
                <<"joiner ", IF named THEN verb ELSE verb \o "all", " ",
                  JOINER_TYPE_TO_STRING[a.joinerType]>>
                \o (IF named THEN <<" ", ToString(a.eui64.int)>> ELSE <<>>)
                \o (IF pw THEN <<" ", a.password.str>> ELSE <<>>)

\* C24: for a response whose last line is `[done]`, isActive returns true
\* when the first line is `true`, false when it is `false`, and fails with
\* an Error for any other first line; getSessionId returns the integer the
\* first line spells and fails with an Error when it spells none.  When the
\* response does not end in `[done]` both fail and return no value.
C24_ActiveAndSessionId ==
    (call.name \in {"isActive", "getSessionId"} /\ call.hist # <<>>) =>
        LET r == call.hist[1]
            first == Concat(r[1])
        IN  IF r = <<>> \/ Concat(Last(r)) # DONE
            THEN call.state = "raised"
            ELSE call.state # "running" =>
                 IF call.name = "isActive"
                 THEN CASE first = "true" ->
                               call.state = "returned" /\ call.value = TRUE
                        [] first = "false" ->
                               call.state = "returned" /\ call.value = FALSE
                        [] OTHER ->
                               call.state = "raised" /\ call.error = "Error"
                 ELSE CASE first = "57" ->
                               call.state = "returned" /\ call.value = 57
                        [] first = "0" ->
                               call.state = "returned" /\ call.value = 0
                        [] first = "-1" ->
                               call.state = "returned" /\ call.value = 0 - 1
                        [] OTHER ->
                               call.state = "raised" /\ call.error = "Error"

\* C25: staging never emits a command line at or over the length cap: for
\* every size of the private key, certificate, trust anchor, verification
\* certificate and signed token, every command of _send_file, setCOM_TOK
\* and _write_config has length + prompt length < TTY_COLS, so staging a
\* large payload does not fail because of its size.
C25_StagingUnderCap ==
    (call.name \in {"setCOM_TOK", "_write_config"} /\ call.state = "running") =>
        LET ins == Method(call.name, call.args, call.hist) IN
        ins.do = "command" =>
            Len(ins.line) + Len(COMMISSIONER_PROMPT) < TTY_COLS

\* the hex texts of the commands a call has sent to append to a file, joined
\* in the order sent
RECURSIVE SentHex(_)
SentHex(events) ==
    IF events = <<>> THEN <<>>
    ELSE SentHex(Front(events))
         \o (IF Last(events).do = "command" /\ Last(events).data # <<>>
             THEN Last(events).data.str ELSE <<>>)

\* C26: setCOM_TOK sends a token of n bytes as ceil(n/TokenStep) append
\* commands, one per successive chunk of TokenStep bytes (the last may be
\* shorter), in order, all to one scratch path; the hex chunks joined in the
\* order sent decode to the token.  `token set` is issued only after every
\* chunk command and the certificate command have returned, and it names
\* the two scratch paths of those commands.
C26_TokenChunks ==
    LET token == call.args.signedCOM_TOK
        n == Len(token)
        chunks == (n + TokenStep - 1) \div TokenStep
        ev == call.events
        path_token == "/tmp/commissioner.token." \o call.args.uuids[1]
        path_cert == "/tmp/commissioner.token_cert." \o call.args.uuids[2]
        isChunk(k) ==
            /\ ev[k].do = "command"
            /\ Len(ev[k].data.str) =
                   2 * (IF k < chunks THEN TokenStep ELSE n - TokenStep * (k - 1))
            /\ HexToBytes(ev[k].data).v.bytes =
                   [i \in 1..(Len(ev[k].data.str) \div 2) |->
                       token[TokenStep * (k - 1) + i]]
            /\ ev[k].line = "echo " \o Concat(ev[k].data.str) \o " >> \""
                                \o path_token \o "\""
        isCert(k) ==
            /\ ev[k].do = "command"
            /\ ev[k].data = <<>>
            /\ ev[k].line = Base64Line(call.args.verifyCert, path_cert).line
        isSet(k) ==
            /\ ev[k].do = "execute"
            /\ ev[k].command = <<"token set ", path_token, " ", path_cert>>
    IN  call.name = "setCOM_TOK" =>
            /\ Len(ev) <= chunks + 2
            /\ \A k \in DOMAIN ev :
                   IF k <= chunks THEN isChunk(k)
                   ELSE IF k = chunks + 1 THEN isCert(k) ELSE isSet(k)
            /\ Len(ev) >= chunks =>
                   HexToBytes([str |-> SentHex(ev)]) = Ok([bytes |-> token])
            /\ path_token # path_cert
            /\ \A k \in DOMAIN ev :
                   ev[k].do = "execute" =>
                       /\ Len(call.hist) >= chunks + 1
                       /\ \A i \in 1..(chunks + 1) : call.hist[i] = <<>>
            /\ call.state = "returned" => Len(ev) = chunks + 2

\* setCOM_TOK has returned after sending a token of two full chunks and one
\* byte more, the certificate and `token set`
C26_Witness ==
    /\ call.name = "setCOM_TOK"
    /\ call.state = "returned"
    /\ Len(call.args.signedCOM_TOK) = 2 * TokenStep + 1
    /\ Len(call.events) = 5
    /\ Len(call.events[3].data.str) = 2
    /\ call.events[5].do = "execute"

\* C27: getCOM_TOK returns the signed token as bytes, and returns an empty
\* byte array, rather than failing, when the token has not been set yet:
\* when the successful `token print` response carries no token line before
\* `[done]`.
C27_EmptyTokenWhenUnset ==
    (call.name = "getCOM_TOK" /\ call.state # "running" /\ call.hist # <<>>
        /\ call.hist[1] # <<>> /\ Concat(Last(call.hist[1])) = DONE) =>
        IF Len(call.hist[1]) = 1
        THEN call.state = "returned" /\ call.value = [bytes |-> <<>>]
        ELSE HexToBytes([str |-> call.hist[1][1]]).err = "none" =>
                 /\ call.state = "returned"
                 /\ call.value = HexToBytes([str |-> call.hist[1][1]]).v

\* C28: MGMT_PANID_QUERY issues `panid query <mask> <panId> <addr>`, then
\* waits the caller's timeout, then issues `panid conflict <panId>` with the
\* same panId, in that order; the conflict command is never issued when the
\* query command fails; the result is false when the first line of the
\* conflict response is the integer 0 and true for every other integer.
C28_PanIdQueryOrder ==
    LET a == call.args
        ev == call.events
        expected ==
            <<[do |-> "execute",
               command |-> <<"panid query ", a.channelMask, " ",
                             ToString(a.panId), " ", a.dstAddr>>],
              [do |-> "sleep", seconds |-> a.timeout],
              [do |-> "execute",
               command |-> <<"panid conflict ", ToString(a.panId)>>]>>
        passed(k) == /\ Len(call.hist) >= k
                     /\ call.hist[k] # <<>>
                     /\ Concat(Last(call.hist[k])) = DONE
    IN  call.name = "MGMT_PANID_QUERY" =>
            /\ Len(ev) <= 3
            /\ ev = SubSeq(expected, 1, Len(ev))
            /\ Len(ev) >= 2 => passed(1)
            /\ call.state = "returned" =>
                   /\ Len(ev) = 3
                   /\ passed(3)
                   /\ ParseInt(call.hist[3][1]).err = "none"
                   /\ call.value = (Concat(call.hist[3][1]) # "0")
            /\ (call.state # "running" /\ passed(3)
                    /\ Concat(call.hist[3][1]) \in {"0", "57", "-1"}) =>
                   /\ call.state = "returned"
                   /\ call.value = (Concat(call.hist[3][1]) # "0")

\* the query has returned true for a conflict count of 57, after the query
\* command, a wait of 5 seconds and the conflict command
C28_Witness ==
    /\ call.name = "MGMT_PANID_QUERY"
    /\ call.state = "returned"
    /\ call.value = TRUE
    /\ call.args.timeout = 5
    /\ Len(call.events) = 3
    /\ Concat(call.hist[3][1]) = "57"

\* C29: MGMT_ED_SCAN issues `energy scan <mask> <count> <period> <duration>
\* <addr>`, then waits the caller's delay, then issues `energy report <addr>`
\* for the same address, in that order; the report command is never issued
\* when the scan command fails; a report whose first line is `null` makes
\* the call fail with an Error and no EnergyReport is returned; otherwise
\* the EnergyReport returned holds the decoded channel mask entries in order
\* and the energy list bytes.
C29_EdScanOrder ==
    LET a == call.args
        ev == call.events
        expected ==
            <<[do |-> "execute",
               command |-> <<"energy scan ", a.channelMask, " ",
                             ToString(a.count), " ", ToString(a.period), " ",
                             ToString(a.scanDuration), " ", a.dstAddr>>],
              [do |-> "sleep", seconds |-> a.timeout],
              [do |-> "execute", command |-> <<"energy report ", a.dstAddr>>]>>
        passed(k) == /\ Len(call.hist) >= k
                     /\ call.hist[k] # <<>>
                     /\ Concat(Last(call.hist[k])) = DONE
    IN  call.name = "MGMT_ED_SCAN" =>
            /\ Len(ev) <= 3
            /\ ev = SubSeq(expected, 1, Len(ev))
            /\ Len(ev) >= 2 => passed(1)
            /\ (call.state # "running" /\ passed(3)
                    /\ Concat(call.hist[3][1]) = "null") =>
                   call.state = "raised" /\ call.error = "Error"
            /\ call.state = "returned" =>
                   /\ Len(ev) = 3
                   /\ passed(3)
                   /\ Front(call.hist[3]) \in DOMAIN ReportTexts
                   /\ LET j == ReportTexts[Front(call.hist[3])]
                          masks == call.value.channelMask.list
                      IN  /\ Len(masks) = Len(j.ChannelMask.list)
                          /\ \A i \in DOMAIN masks :
                                 /\ masks[i].page = j.ChannelMask.list[i].Page
                                 /\ BytesToHex(masks[i].masks).v =
                                        j.ChannelMask.list[i].Masks
                          /\ BytesToHex(call.value.energyList).v = j.EnergyList

\* a scan has returned the report of two channel mask entries, pages 0 and
\* 2 in that order, and the energy list 0a ab
C29_Witness ==
    /\ call.name = "MGMT_ED_SCAN"
    /\ call.state = "returned"
    /\ Len(call.events) = 3
    /\ Len(call.value.channelMask.list) = 2
    /\ call.value.channelMask.list[1].page = 0
    /\ call.value.channelMask.list[2].page = 2
    /\ call.value.energyList = [bytes |-> <<10, 171>>]

\* the lines the session has still to read: those buffered, then those of
\* the data at the handler and on the line; the last, unfinished one is not
\* a line yet
PendingLines ==
    LET rest == pipe \o wire
        all == IF lines = <<>> THEN NewLineSplit(rest)
               ELSE Front(lines) \o NewLineSplit(Last(lines) \o rest)
    IN  [i \in 1..(Len(all) - 1) |-> StripControl(all[i])]

\* the non-empty ones among lines
NonEmpty(ls) == SelectSeq(ls, LAMBDA l : Text(l) # "")

\* C30: the response _command returns is the sequence, in order, of the
\* non-empty lines read after the echo line and before the first line that
\* matches the idle prompt.  Accumulation begins empty at the echo; while it
\* goes on, the response followed by the non-empty lines still to read stays
\* the same sequence, so that no line is dropped and none is reordered, and
\* no line of the response matches the prompt; it ends at a line that matches
\* the prompt and only there, with the response as it was and nothing of
\* what follows the prompt in it.
C30_ResponseIsLinesBeforePrompt ==
    [][ /\ (pc = "expect" /\ pc' = "accumulate") =>
               /\ response' = <<>>
               /\ Text(echo') = cmd
        /\ (pc \in {"accumulate", "accumulate_sleep"}
                /\ pc' \in {"accumulate", "accumulate_sleep"}) =>
               /\ response' \o NonEmpty(PendingLines')
                      = response \o NonEmpty(PendingLines)
               /\ \A i \in DOMAIN response' : ~PromptMatch(response'[i])
        /\ (pc = "accumulate" /\ pc' \in {"idle", "returned"}) =>
               /\ response' = response
               /\ NonEmpty(PendingLines) # <<>>
               /\ PromptMatch(Head(NonEmpty(PendingLines)))
               /\ session' # "closed" =>
                      /\ NonEmpty(PendingLines') = Tail(NonEmpty(PendingLines))
                      /\ result'.kind \in {"Ok", "Returned"} =>
                             result'.payload = Texts(response)
      ]_vars

\* the second command of a session has returned at the prompt, its response
\* the two output lines foo and [done]
C30_Witness ==
    /\ pc = "idle"
    /\ result.kind = "Ok"
    /\ result.payload = <<"foo", DONE>>
    /\ Texts(response) = <<"foo", DONE>>
    /\ calls = 2


\* the bytes of a line or stream, one by one
BytesOf(l) == [i \in DOMAIN l |-> l[i].t]

\* the terminated lines of a whole stream, control sequences removed from each
TerminatedLines(s) ==
    LET all == NewLineSplit(s)
    IN  [i \in 1..(Len(all) - 1) |-> StripControl(all[i])]

C32_ConditionalCredentials ==
    call.name \in {"_write_config", "__init__"} =>
        LET a == call.args
            ev == call.events
            keys == <<"PrivateKeyFile", "CertificateFile", "TrustAnchorFile">>
            isSet(i) == a.isCcmMode /\ a.files[i] > 0
            cfgAt(k) == ev[k].data # <<>>
            initAt(k) == ev[k].line = COMMISSIONER_CTL \o " init \""
                                          \o a.config_path \o "\""
            stageAt(k) == ~cfgAt(k) /\ ~initAt(k) /\ ev[k].line # "echo $?"
        IN  \A k \in DOMAIN ev :
                /\ stageAt(k) =>
                       /\ a.isCcmMode
                       /\ \A j \in 1..k : ~cfgAt(j)
                /\ cfgAt(k) =>
                       LET c == ev[k].data.credentials IN
                       /\ \A i \in 1..3 :
                              (\E d \in DOMAIN c : c[d].key = keys[i]) <=> isSet(i)
                       /\ Len(c) = Cardinality({i \in 1..3 : isSet(i)})
                       /\ \A d \in DOMAIN c : \E j \in 1..(k - 1), i \in 1..3 :
                              /\ c[d].key = keys[i]
                              /\ stageAt(j)
                              /\ ev[j].line = Base64Line(a.files[i], c[d].path).line
                /\ initAt(k) => \E j \in 1..(k - 1) : cfgAt(j)

\* a construction in CCM mode with a private key and a certificate but no
\* trust anchor has returned: two files were staged, then the configuration
\* was written with the two keys PrivateKeyFile and CertificateFile, then the
\* init command and the probe were sent
C32_Witness ==
    /\ call.name = "__init__"
    /\ call.state = "returned"
    /\ call.args.isCcmMode
    /\ call.args.files = <<300, 1200, 0>>
    /\ Len(call.events) = 5
    /\ call.events[3].data # <<>>
    /\ Len(call.events[3].data.credentials) = 2
    /\ call.events[3].data.credentials[1].key = "PrivateKeyFile"
    /\ call.events[3].data.credentials[1].path
           = "/tmp/commissioner.private_key." \o Uuids[1]
    /\ call.events[3].data.credentials[2].key = "CertificateFile"
    /\ call.events[1].line
           = Base64Line(300, "/tmp/commissioner.private_key." \o Uuids[1]).line
    /\ call.events[4].line
           = COMMISSIONER_CTL \o " init \"" \o call.args.config_path \o "\""


\* C33: timestamp coding.  Encoding a timestamp gives U = 0 for u = false and
\* U = 1 for u = true and copies Seconds and Ticks, and decoding the result
\* gives the timestamp back; decoding a JSON timestamp gives a boolean u,
\* false for U = 0 and true for U = 1, and, when U is 0 or 1, encoding the
\* result gives the JSON timestamp back.
C33_TimestampCoding ==
    /\ enc.op = "timestamp" =>
           /\ enc.err = "none"
           /\ enc.json.U = (IF enc.ds.u THEN 1 ELSE 0)
           /\ enc.json.Seconds = enc.ds.seconds
           /\ enc.json.Ticks = enc.ds.ticks
           /\ DOMAIN enc.json = {"Seconds", "Ticks", "U"}
           /\ dec.err = "none"
           /\ dec.ds = enc.ds
    /\ dec.op = "jsonTimestamp" =>
           /\ dec.err = "none"
           /\ dec.ds.u \in BOOLEAN
           /\ dec.input.U = 0 => dec.ds.u = FALSE
           /\ dec.input.U = 1 => dec.ds.u = TRUE
           /\ dec.ds.seconds = dec.input.Seconds
           /\ dec.ds.ticks = dec.input.Ticks
           /\ dec.input.U \in {0, 1} => enc.err = "none" /\ enc.json = dec.input

\* the JSON timestamp with Seconds 128, Ticks 12 and U 1 was decoded to a
\* timestamp with u true and encoded again to itself
C33_Witness ==
    /\ dec.op = "jsonTimestamp"
    /\ dec.input = [Seconds |-> 128, Ticks |-> 12, U |-> 1]
    /\ dec.ds = Timestamp(128, 12, TRUE)
    /\ enc.json = [Seconds |-> 128, Ticks |-> 12, U |-> 1]


\* C34: quote escaping preserves the command.  For every command text that
\* contains a double quote, the command _execute_and_check hands to _command
\* carries the text with each quote replaced by the four characters "\"",
\* and bash, reading the line, passes commissioner_ctl.py one argument after
\* `execute` that is exactly the original command text.
C34_QuotingPreservesCommand ==
    (call.name = "_execute_and_check" /\ call.events # <<>>
        /\ \E i \in DOMAIN call.args.command : call.args.command[i] = Q) =>
        /\ call.events[1].do = "execute"
        /\ call.events[1].command = call.args.command
        /\ Len(EscapeQuotes(call.args.command))
               = Len(call.args.command)
                     + 3 * Cardinality({i \in DOMAIN call.args.command :
                                            call.args.command[i] = Q})
        /\ ShellArguments(call.args.command)
               = [err |-> "none", words |-> <<call.args.command>>]


\* C35: a dispatch whose captured response is empty (the prompt follows the
\* echo directly, or only empty lines come between them) is reported as a
\* failed command with a commissioner Error: it is never a success and never
\* ends in another exception.
C35_EmptyResponseIsError ==
    (Checked /\ response = <<>>) => result.kind = "Error"


\* C36: the daemon holds at most one live CLI process.  No process is alive
\* while none is registered, and a process is spawned only when none is
\* alive; an init request received while a process is registered first sends
\* that process `exit` and spawns nothing yet; when that exit times out the
\* old process is force-terminated, nothing is spawned, no process is
\* registered and the request is answered with failure; when the new process
\* ends before showing its prompt the request is answered with failure and
\* no process is registered.
C36_OneLiveProcess ==
    [][ /\ ~process => cli # "alive"
        /\ (dpc # "init_wait" /\ dpc' = "init_wait") =>
               /\ cli # "alive"
               /\ process' /\ cli' = "alive"
        /\ (reqno' = reqno + 1 /\ IsInit(msg') /\ process) =>
               /\ dpc' = "exit_wait"
               /\ cliQueue' = Append(cliQueue, Job("exit", reqno'))
               /\ cli' = cli /\ process'
        /\ (dpc = "exit_wait" /\ dpc' # "exit_wait" /\ IsInit(msg)
                /\ cli = "alive") =>
               /\ cli' = "dead" /\ ~process'
               /\ dpc' = "recv"
               /\ reply' = Failure(reqno, "TIMEOUT")
        /\ (dpc = "init_wait" /\ dpc' # "init_wait" /\ cli = "dead"
                /\ ~EndsWithPrompt(buf)) =>
               /\ ~process'
               /\ reply'.to = reqno /\ reply'.status = "failure"
      ]_vars

\* the second request, an init received while the process of the first was
\* registered, has been answered with success: the old process was exited
\* and the new one is registered and alive
C36_Witness ==
    /\ dpc = "recv"
    /\ reqno = 2
    /\ IsInit(msg)
    /\ cont = "spawn"
    /\ reply.to = 2
    /\ reply.status = "success"
    /\ process
    /\ cli = "alive"


\* C37: an execute or exit request received while no CLI process is
\* registered is answered with failure, 'CLI not started yet'; nothing is
\* sent to a process and the state of the daemon stays as it was.  When
\* _exit finishes for an exit request, at EOF or after the forced
\* termination, no process is registered; from then on a process becomes
\* registered only in the handling of an init request, and an init request
\* that is answered with failure leaves none registered; between requests
\* none is registered when the last request was an exit.
C37_NotStartedYet ==
    [][ /\ (reqno' = reqno + 1 /\ ~process /\ ~IsInit(msg')
                /\ (IsExit(msg') \/ IsExecute(msg'))) =>
               /\ reply' = Failure(reqno', "CLI not started yet")
               /\ answered' = answered + 1
               /\ dpc' = "recv"
               /\ <<process, cli, cliQueue, cliOuts, buf>>'
                      = <<process, cli, cliQueue, cliOuts, buf>>
        /\ (dpc = "exit_wait" /\ dpc' # "exit_wait" /\ ~IsInit(msg)) =>
               /\ ~process'
               /\ cli' = "dead"
               /\ reply'.to = reqno
        /\ (~process /\ process') => (IsInit(msg') /\ dpc' = "init_wait")
        /\ (answered' = answered + 1 /\ IsInit(msg)
                /\ reply'.status = "failure") => ~process'
        /\ (dpc \in {"recv", "accept"} /\ IsExit(msg)) => ~process
      ]_vars

\* after an init and an exit, the third request, an execute of `active`, has
\* been answered 'CLI not started yet'; no process is registered
C37_Witness ==
    /\ dpc = "recv"
    /\ reqno = 3
    /\ msg = [type |-> "execute", command |-> <<"active">>]
    /\ reply = Failure(3, "CLI not started yet")
    /\ ~process
    /\ cli = "dead"


\* the command is the word `exit`, white space before it and white-space
\* separated arguments after it allowed
IsExitWord(c) ==
    LET s == SkipSpace(c)
    IN  s # <<>> /\ Head(s) = "exit" /\ (Len(s) = 1 \/ s[2] = " ")

\* C38: the daemon treats an execute request as an exit exactly when its
\* command is the word `exit`, optionally preceded by white space and
\* followed by white-space separated arguments.  With a process registered,
\* such a request sends the process `exit` and, when _exit finishes, no
\* process is registered; every other command is forwarded to the process,
\* which stays registered when the request is answered.
C38_ExitWordOnly ==
    [][ /\ (reqno' = reqno + 1 /\ msg'.type = "execute" /\ process) =>
               IF IsExitWord(msg'.command)
               THEN /\ dpc' = "exit_wait"
                    /\ cliQueue' = Append(cliQueue, Job("exit", reqno'))
               ELSE /\ dpc' = "exec_wait"
                    /\ cliQueue' = Append(cliQueue, Job("run", reqno'))
        /\ (msg.type = "execute" /\ dpc = "exit_wait" /\ dpc' = "recv") =>
               ~process'
        /\ (msg.type = "execute" /\ dpc \in {"exec_wait", "grace_wait"}
                /\ dpc' = "recv") => process'
      ]_vars


\* C39: the controller reports the daemon's reply through its exit status.
\* For a request the controller can send, once the daemon has answered it or
\* has ended: the controller exits with status 1 exactly when the reply
\* status is failure, and with status 0 and the result printed when it is
\* success; a construction, whose probe `echo $?` prints that status, fails
\* exactly when the daemon answered the init request with failure; and a
\* command the daemon aborted is printed with status 0 as 'Timed out
\* executing' and what the process had written.
C39_ExitStatusIsReplyStatus ==
    LET over == \/ dpc = "crashed"
                \/ dpc \in {"recv", "accept"} /\ reqno > 0 /\ reply.to = reqno
        answer == IF reply.to = reqno THEN reply ELSE NoReply
        ctl == ControllerMain(answer)
        probe == << <<IF ctl.exit = 0 THEN "0" ELSE "1">> >>
        construction ==
            Construct([isCcmMode |-> FALSE, files |-> <<0, 0, 0>>,
                       uuids |-> Uuids, config_path |-> "/tmp/commissioner.json"],
                      << <<>>, <<>>, probe >>)
    IN  (over /\ (IsInit(msg) \/ IsExit(msg) \/ IsExecute(msg))) =>
            /\ ctl.exit = 1 <=> answer.status = "failure"
            /\ answer.status = "success" =>
                   /\ ctl.exit = 0
                   /\ ctl.out = [kind |-> answer.kind, before |-> answer.before]
            /\ IsInit(msg) =>
                   (construction.do = "raise" <=> answer.status = "failure")
            /\ answer.kind = "Timed out executing" =>
                   /\ ctl.exit = 0
                   /\ ctl.out.kind = "Timed out executing"

====
